---- MODULE Spec2Model ----
(***************************************************************************)
(* Model of the group call coordinator of src/webrtc/groupCall.ts          *)
(* (class GroupCall): lifecycle, participant view, call graph reconciler,  *)
(* call handler table and retry loop.                                      *)
(*                                                                         *)
(* Strings that the code compares with < and >= (user ids, device ids)     *)
(* are sequences of code units, compared as JavaScript compares strings.   *)
(***************************************************************************)
EXTENDS Integers, Sequences, FiniteSets, TLC

VARIABLES
    state,                    \* GroupCall._state
    participants,             \* GroupCall._participants, flattened to slot -> ParticipantState
    enteredViaAnotherSession, \* GroupCall._enteredViaAnotherSession
    calls,                    \* GroupCall.calls: member -> (deviceId -> call)
    callHandlers,             \* GroupCall.callHandlers: userId -> (key -> owner of the closures)
    retryCallCounts,          \* GroupCall.retryCallCounts: member -> (deviceId -> count)
    callObjs,                 \* the MatrixCall objects the coordinator has seen
    localCallFeed,            \* GroupCall.localCallFeed is set
    userMediaFeeds,           \* GroupCall.userMediaFeeds
    retryCallLoopInterval,    \* GroupCall.retryCallLoopInterval is armed
    incomingListener,         \* onIncomingCall is subscribed to the client
    captures,                 \* initLocalCallFeed invocations awaiting getUserMediaStream
    roomState,                \* the room's member-state events, per (user, device)
    joined,                   \* the users whose room membership is "join"
    now,                      \* Date.now()
    participantsExpirationTimer, \* the time the expiration timer fires at, or NoTimer
    roomListener,             \* onRoomState is subscribed to the room
    otherCalls,               \* the m.calls entries of the local member state for other calls
    resendMemberStateTimer,   \* GroupCall.resendMemberStateTimer is armed
    awaitingSend,             \* an updateMemberState awaits addDeviceToMemberState
    screenshareFeeds,         \* GroupCall.screenshareFeeds
    localScreenshareFeed,     \* GroupCall.localScreenshareFeed is set
    shareCaptures,            \* setScreensharingEnabled(true) invocations awaiting getScreensharingStream
    activeSpeaker,            \* GroupCall.activeSpeaker: a feed, or NoFeed
    activeSpeakerLoopInterval, \* GroupCall.activeSpeakerLoopInterval is armed
    audioMuted,               \* the audio-mute bit of localCallFeed
    initWithAudioMuted,       \* GroupCall.initWithAudioMuted
    transmitTimer,            \* GroupCall.transmitTimer holds a timeout that is pending
    strayTransmitTimers,      \* pending transmit timeouts whose handle was overwritten
    muteCalls,                \* setMicrophoneMuted invocations at one of their awaits
    isPtt,                    \* GroupCall.isPtt
    audioTracks,              \* the captured user-media stream has audio tracks
    volumes,                  \* per feed source, how far its average volume is above the threshold
    lastOp,                   \* the handler that ran last, "idle" once it is observed
    obs,                      \* what the last handler did (calls made on collaborators, events emitted)
    dirA, dirB, dirRes        \* inputs and results of the directionality evaluation

mediaVars == <<screenshareFeeds, localScreenshareFeed, shareCaptures, activeSpeaker,
               activeSpeakerLoopInterval, audioMuted, initWithAudioMuted, transmitTimer,
               strayTransmitTimers, muteCalls, isPtt, audioTracks, volumes>>

vars == <<state, participants, enteredViaAnotherSession, calls, callHandlers,
          retryCallCounts, callObjs, localCallFeed, userMediaFeeds,
          retryCallLoopInterval, incomingListener, captures, roomState, joined,
          now, participantsExpirationTimer, roomListener, otherCalls,
          resendMemberStateTimer, awaitingSend, mediaVars, lastOp, obs,
          dirA, dirB, dirRes>>

coreVars == <<state, participants, enteredViaAnotherSession, calls, callHandlers,
              retryCallCounts, callObjs, localCallFeed, userMediaFeeds,
              retryCallLoopInterval, incomingListener, captures, roomState, joined,
              now, participantsExpirationTimer, roomListener, otherCalls,
              resendMemberStateTimer, awaitingSend, mediaVars, lastOp, obs>>

dirVars == <<dirA, dirB, dirRes>>

-----------------------------------------------------------------------------
(* Identifiers *)

\* "@a", "@b", "@ba": user ids start with the code unit of "@" (here 0)
UserA == <<0, 1>>
UserB == <<0, 2>>
UserC == <<0, 2, 1>>
\* device ids
Dev1  == <<1>>
Dev2  == <<2>>
Dev21 == <<2, 1>>

Users   == {UserA, UserB, UserC}
\* undefined where a RoomMember is expected, as a key of a Map
NoMember == <<0>>
Devices == {Dev1, Dev2, Dev21}

\* client.getUserId(), client.getDeviceId(), client.getSessionId()
LocalUserId   == UserB
LocalDeviceId == Dev2
LocalSessionId == "sL"
LocalSlot == <<LocalUserId, LocalDeviceId>>

\* the remote (user, device) pairs that advertise or call in the model:
\* a lower user, a higher device of the local user, a higher user
RemoteSlots == {<<UserA, Dev1>>, <<UserB, Dev21>>, <<UserC, Dev1>>}
Slots == RemoteSlots \cup {LocalSlot}

SessionIds == {"s1", "s2"}

None == "none"

\* JavaScript's a < b on strings: lexicographic on code units
RECURSIVE StrLess(_, _)
StrLess(a, b) ==
    IF a = <<>> THEN b # <<>>
    ELSE IF b = <<>> THEN FALSE
    ELSE IF Head(a) < Head(b) THEN TRUE
    ELSE IF Head(a) > Head(b) THEN FALSE
    ELSE StrLess(Tail(a), Tail(b))

\* a plausible slip: the user comparison made strict
wantsOutgoingCallAsStrictUser(localUserId, localDeviceId, userId, deviceId) ==
    /\ StrLess(localUserId, userId)
    /\ (userId # localUserId \/ StrLess(localDeviceId, deviceId))

\* a plausible slip: the two directions swapped
wantsOutgoingCallAsSwapped(localUserId, localDeviceId, userId, deviceId) ==
    /\ ~StrLess(localUserId, userId)
    /\ (userId # localUserId \/ StrLess(deviceId, localDeviceId))

\* wantsOutgoingCall, evaluated by the device (localUserId, localDeviceId)
wantsOutgoingCallAs(localUserId, localDeviceId, userId, deviceId) ==
    /\ ~StrLess(userId, localUserId)                                  \* userId >= localUserId
    /\ (userId # localUserId \/ StrLess(localDeviceId, deviceId))     \* deviceId > localDeviceId

wantsOutgoingCall(userId, deviceId) ==
    wantsOutgoingCallAs(LocalUserId, LocalDeviceId, userId, deviceId)

-----------------------------------------------------------------------------
(* Values *)

\* the most MatrixCall objects alive at a time
MaxCalls == 2
\* the most initLocalCallFeed invocations awaiting capture at a time
MaxCaptures == 1
\* no capture is started once the user-media registry holds this many feeds
MaxFeeds == 2
\* the levels a feed's average volume is told apart by: 0 is not above
\* SPEAKING_THRESHOLD, a higher level is a higher average
MaxVolume == 1
\* nobody speaks: the volume per feed source (0: the local capture, else the call)
Silence == [c \in 0..MaxCalls |-> 0]

CallIds == 1..MaxCalls

Uninitialized == "local_call_feed_uninitialized"
Initializing  == "initializing_local_call_feed"
Initialized   == "local_call_feed_initialized"
Entered       == "entered"
Ended         == "ended"

AllListeners == {"feeds_changed", "state", "hangup", "replaced"}

NoCall == [alive |-> FALSE, userId |-> <<>>, deviceId |-> <<>>, sessionId |-> None,
           dir |-> None, state |-> None, hangupReason |-> None, listeners |-> {},
           pending |-> FALSE, mapAttached |-> FALSE, localFeeds |-> <<>>,
           remoteUsermediaFeed |-> 0, remoteScreensharingFeed |-> 0,
           opponentMember |-> TRUE]

EmptyMap == <<>>

MapSet(m, k, v) == [x \in DOMAIN m \cup {k} |-> IF x = k THEN v ELSE m[x]]
MapDel(m, k) == [x \in DOMAIN m \ {k} |-> m[x]]

\* the iteration order of the maps keyed by (member, device): sorted; the code
\* iterates in insertion order, which changes only the order of allocation
SlotOrder == <<<<UserA, Dev1>>, <<UserB, Dev2>>, <<UserB, Dev21>>, <<UserC, Dev1>>,
               <<NoMember, Dev1>>, <<NoMember, Dev21>>>>
UserOrder == <<UserA, UserB, UserC>>
DeviceOrder == <<Dev1, Dev2, Dev21>>

RECURSIVE SeqFilter(_, _)
SeqFilter(s, S) ==
    IF s = <<>> THEN <<>>
    ELSE IF Head(s) \in S THEN <<Head(s)>> \o SeqFilter(Tail(s), S)
    ELSE SeqFilter(Tail(s), S)

NoObs == [error |-> None, stateChanged |-> 0,
          participantsChanged |-> 0, callsChanged |-> 0,
          created |-> {}, placed |-> {}, answered |-> {}, disposed |-> {},
          rejected |-> FALSE, passes |-> <<>>, incoming |-> <<>>, capture |-> None,
          errorEvents |-> 0, writes |-> <<>>, mutations |-> <<>>,
          seen |-> {}, recomputes |-> 0,
          hangup |-> [call |-> 0, reason |-> None],
          muteEvents |-> <<>>, returned |-> <<>>, streams |-> <<>>,
          replaced |-> [prevCall |-> 0, newCall |-> 0, slot |-> <<>>, prevListeners |-> {},
                        member |-> <<>>, prevState |-> None]]

\* what beginPass keeps of the coordinator, before any pass has begun
NoBefore == [calls |-> EmptyMap, callObjs |-> [c \in CallIds |-> NoCall],
             state |-> None, participants |-> EmptyMap, callsChanged |-> 0]

\* the coordinator's fields as one record, threaded through the handlers;
\* nulls: the slots for which createNewMatrixCall returns null in this handler
Cur(nulls) ==
    [state |-> state, participants |-> participants,
     enteredViaAnotherSession |-> enteredViaAnotherSession,
     calls |-> calls, callHandlers |-> callHandlers,
     retryCallCounts |-> retryCallCounts, callObjs |-> callObjs,
     localCallFeed |-> localCallFeed, userMediaFeeds |-> userMediaFeeds,
     retryCallLoopInterval |-> retryCallLoopInterval,
     incomingListener |-> incomingListener, captures |-> captures,
     roomState |-> roomState, joined |-> joined, now |-> now,
     participantsExpirationTimer |-> participantsExpirationTimer,
     roomListener |-> roomListener, otherCalls |-> otherCalls,
     resendMemberStateTimer |-> resendMemberStateTimer, awaitingSend |-> awaitingSend,
     screenshareFeeds |-> screenshareFeeds, localScreenshareFeed |-> localScreenshareFeed,
     shareCaptures |-> shareCaptures, activeSpeaker |-> activeSpeaker,
     activeSpeakerLoopInterval |-> activeSpeakerLoopInterval,
     audioMuted |-> audioMuted, initWithAudioMuted |-> initWithAudioMuted,
     transmitTimer |-> transmitTimer, strayTransmitTimers |-> strayTransmitTimers,
     muteCalls |-> muteCalls, isPtt |-> isPtt,
     audioTracks |-> audioTracks, volumes |-> volumes,
     obs |-> NoObs, nulls |-> nulls,
     callMap |-> EmptyMap, callsChanged |-> FALSE, overflow |-> FALSE,
     before |-> NoBefore]

\* an exception thrown in a handler: what follows in the handler does not run
Throw(w, e) == [w EXCEPT !.obs.error = e]
Ok(w) == w.obs.error = None

-----------------------------------------------------------------------------
(* 4.A Feed registry (the user-media sequence) *)

\* a CallFeed: its key, its purpose and the call it came from (0: local capture)
LocalFeed == [userId |-> LocalUserId, deviceId |-> LocalDeviceId,
              purpose |-> "m.usermedia", call |-> 0, stream |-> 0]

\* the screenshare feed made of a captured screen
LocalScreenshareFeed == [LocalFeed EXCEPT !.purpose = "m.screenshare"]

\* undefined, where a CallFeed is expected
NoFeed == [userId |-> <<>>, deviceId |-> <<>>, purpose |-> None, call |-> 0, stream |-> 0]

RECURSIVE FeedIndex(_, _, _, _)
\* findIndex(f => f.userId === userId && f.deviceId === deviceId), 0 for -1
FeedIndex(feeds, userId, deviceId, i) ==
    IF i > Len(feeds) THEN 0
    ELSE IF feeds[i].userId = userId /\ feeds[i].deviceId = deviceId THEN i
    ELSE FeedIndex(feeds, userId, deviceId, i + 1)

getUserMediaFeed(w, userId, deviceId) == FeedIndex(w.userMediaFeeds, userId, deviceId, 1)

addUserMediaFeed(w, callFeed) ==
    [w EXCEPT !.userMediaFeeds = Append(@, callFeed)]

\* splice(feedIndex, 1)
SpliceOut(feeds, feedIndex) ==
    [i \in 1..(Len(feeds) - 1) |-> IF i < feedIndex THEN feeds[i] ELSE feeds[i + 1]]

\* this.userMediaFeeds[0] once the feed is spliced out: undefined when none is left
promoteFirst(w, callFeed) ==
    IF w.activeSpeaker = callFeed
    THEN [w EXCEPT !.activeSpeaker = IF w.userMediaFeeds = <<>> THEN NoFeed
                                     ELSE w.userMediaFeeds[1]]
    ELSE w

replaceUserMediaFeed(w, existingFeed, replacementFeed) ==
    LET feedIndex == FeedIndex(w.userMediaFeeds, existingFeed.userId, existingFeed.deviceId, 1) IN
    IF feedIndex = 0 THEN Throw(w, "Couldn't find user media feed to replace")
    ELSE [w EXCEPT !.userMediaFeeds = [@ EXCEPT ![feedIndex] = replacementFeed]]

removeUserMediaFeed(w, callFeed) ==
    LET feedIndex == FeedIndex(w.userMediaFeeds, callFeed.userId, callFeed.deviceId, 1) IN
    IF feedIndex = 0 THEN Throw(w, "Couldn't find user media feed to remove")
    ELSE promoteFirst([w EXCEPT !.userMediaFeeds = SpliceOut(@, feedIndex)], callFeed)

\* callFeed.isLocal()
isLocal(callFeed) == callFeed.userId = LocalUserId /\ callFeed.deviceId = LocalDeviceId

RECURSIVE loudest(_, _, _, _)
\* the loop of onActiveSpeakerLoop from the i-th feed on: topAvg is -1 while
\* undefined, nextActiveSpeaker is an index into userMediaFeeds, 0 while undefined
loudest(w, i, topAvg, nextActiveSpeaker) ==
    IF i > Len(w.userMediaFeeds)
    THEN [topAvg |-> topAvg, nextActiveSpeaker |-> nextActiveSpeaker]
    ELSE IF isLocal(w.userMediaFeeds[i]) /\ Len(w.userMediaFeeds) > 1
    THEN loudest(w, i + 1, topAvg, nextActiveSpeaker)
    ELSE LET avg == w.volumes[w.userMediaFeeds[i].call] IN
         IF topAvg = -1 \/ avg > topAvg THEN loudest(w, i + 1, avg, i)
         ELSE loudest(w, i + 1, topAvg, nextActiveSpeaker)

onActiveSpeakerLoop(w) ==
    LET top == loudest(w, 1, -1, 0) IN
    IF ~Ok(w) THEN w
    ELSE IF /\ top.nextActiveSpeaker # 0
            /\ w.activeSpeaker # w.userMediaFeeds[top.nextActiveSpeaker]
            /\ top.topAvg > 0                        \* topAvg > SPEAKING_THRESHOLD
    THEN [w EXCEPT !.activeSpeaker = w.userMediaFeeds[top.nextActiveSpeaker]]
    ELSE w

getScreenshareFeed(w, userId, deviceId) == FeedIndex(w.screenshareFeeds, userId, deviceId, 1)

addScreenshareFeed(w, callFeed) ==
    [w EXCEPT !.screenshareFeeds = Append(@, callFeed)]

replaceScreenshareFeed(w, existingFeed, replacementFeed) ==
    LET feedIndex == FeedIndex(w.screenshareFeeds, existingFeed.userId, existingFeed.deviceId, 1) IN
    IF feedIndex = 0 THEN Throw(w, "Couldn't find screenshare feed to replace")
    ELSE [w EXCEPT !.screenshareFeeds = [@ EXCEPT ![feedIndex] = replacementFeed]]

removeScreenshareFeed(w, callFeed) ==
    LET feedIndex == FeedIndex(w.screenshareFeeds, callFeed.userId, callFeed.deviceId, 1) IN
    IF feedIndex = 0 THEN Throw(w, "Couldn't find screenshare feed to remove")
    ELSE [w EXCEPT !.screenshareFeeds = SpliceOut(@, feedIndex)]


\* getUserMediaStream or getScreensharingStream has resolved with a stream
acquireStream(w, purpose) ==
    [w EXCEPT !.obs.streams = Append(@, [op |-> "acquire", purpose |-> purpose])]

\* stopUserMediaStream(stream) or stopScreensharingStream(stream)
stopStream(w, purpose) ==
    [w EXCEPT !.obs.streams = Append(@, [op |-> "stop", purpose |-> purpose])]

\* this.client.getMediaHandler().stopAllStreams()
stopAllStreams(w) ==
    IF Ok(w) THEN [w EXCEPT !.obs.streams = Append(@, [op |-> "stopAll", purpose |-> None])]
    ELSE w

getLocalFeeds(w) ==
    (IF w.localCallFeed THEN <<LocalFeed>> ELSE <<>>)
    \o (IF w.localScreenshareFeed THEN <<LocalScreenshareFeed>> ELSE <<>>)

\* feeds.map(feed => feed.clone()): the purposes of the clones handed to a call
CloneFeeds(feeds) == [i \in 1..Len(feeds) |-> feeds[i].purpose]

-----------------------------------------------------------------------------
(* 4.C Call handler table *)

\* getCallUserId: the opponent member's user id, or the invitee
getCallUserId(w, c) == w.callObjs[c].userId

\* the slot of the graph holds call c
Occupies(w, c) ==
    LET o == w.callObjs[c] IN
    /\ o.userId \in DOMAIN w.calls
    /\ o.deviceId \in DOMAIN w.calls[o.userId]
    /\ w.calls[o.userId][o.deviceId] = c

\* disposeCall up to the check of call.hangupReason: the listeners are removed
\* and the handler table is updated
removeCallHandlers(w, c, hangupReason) ==
    LET opponentMemberId == getCallUserId(w, c)
        opponentDeviceId == w.callObjs[c].deviceId IN
    IF ~Ok(w) THEN w
    ELSE IF opponentMemberId \notin DOMAIN w.callHandlers
            \/ opponentDeviceId \notin DOMAIN w.callHandlers[opponentMemberId]
    THEN Throw(w, "TypeError")  \* deviceMap or its entry is undefined
    ELSE
    LET deviceMap == w.callHandlers[opponentMemberId]
        owner == deviceMap[opponentDeviceId]
        \* the three closures are the call's own only if it owns the entry;
        \* onCallHangup is the same function for every call
        removed == IF owner = c THEN AllListeners ELSE {"hangup"}
        deviceMap2 == MapDel(deviceMap, opponentMemberId) IN  \* deviceMap.delete(opponentMemberId)
    [w EXCEPT !.callObjs[c].listeners = @ \ removed,
              !.callHandlers =
                  IF DOMAIN deviceMap2 = {} THEN MapDel(@, opponentMemberId)
                  ELSE MapSet(@, opponentMemberId, deviceMap2),
              !.obs.disposed = @ \cup {<<c, hangupReason>>}]

\* if (call.state !== CallState.Ended) call.hangup(hangupReason, false)
hangupCall(w, c, hangupReason) ==
    IF w.callObjs[c].state # "ended"
    THEN [w EXCEPT !.callObjs[c].state = "ended",
                   !.callObjs[c].hangupReason = hangupReason]
    ELSE w

\* the user-media feed of the call's opponent is removed from the registry
removeCallFeed(w, c) ==
    LET usermediaFeed == getUserMediaFeed(w, getCallUserId(w, c), w.callObjs[c].deviceId) IN
    IF usermediaFeed # 0 THEN removeUserMediaFeed(w, w.userMediaFeeds[usermediaFeed])
    ELSE w

\* and so is the opponent's screenshare feed
removeCallScreenshareFeed(w, c) ==
    LET screenshareFeed == getScreenshareFeed(w, getCallUserId(w, c), w.callObjs[c].deviceId) IN
    IF ~Ok(w) THEN w
    ELSE IF screenshareFeed # 0
    THEN removeScreenshareFeed(w, w.screenshareFeeds[screenshareFeed])
    ELSE w

\* the CallFeed a call holds for its opponent's stream of a purpose, or NoFeed
RemoteFeed(w, c, purpose, stream) ==
    IF stream = 0 THEN NoFeed
    ELSE [userId |-> getCallUserId(w, c), deviceId |-> w.callObjs[c].deviceId,
          purpose |-> purpose, call |-> c, stream |-> stream]

\* the first half of onCallFeedsChanged: the opponent's user-media feed
onUsermediaFeedChanged(w, c) ==
    LET index == getUserMediaFeed(w, getCallUserId(w, c), w.callObjs[c].deviceId)
        currentUserMediaFeed == IF index = 0 THEN NoFeed ELSE w.userMediaFeeds[index]
        remoteUsermediaFeed ==
            RemoteFeed(w, c, "m.usermedia", w.callObjs[c].remoteUsermediaFeed) IN
    IF remoteUsermediaFeed = currentUserMediaFeed THEN w
    ELSE IF currentUserMediaFeed = NoFeed THEN addUserMediaFeed(w, remoteUsermediaFeed)
    ELSE IF remoteUsermediaFeed # NoFeed
    THEN replaceUserMediaFeed(w, currentUserMediaFeed, remoteUsermediaFeed)
    ELSE removeUserMediaFeed(w, currentUserMediaFeed)

\* the second half: the opponent's screenshare feed
onScreenshareFeedChanged(w, c) ==
    LET index == getScreenshareFeed(w, getCallUserId(w, c), w.callObjs[c].deviceId)
        currentScreenshareFeed == IF index = 0 THEN NoFeed ELSE w.screenshareFeeds[index]
        remoteScreensharingFeed ==
            RemoteFeed(w, c, "m.screenshare", w.callObjs[c].remoteScreensharingFeed) IN
    IF ~Ok(w) \/ remoteScreensharingFeed = currentScreenshareFeed THEN w
    ELSE IF currentScreenshareFeed = NoFeed THEN addScreenshareFeed(w, remoteScreensharingFeed)
    ELSE IF remoteScreensharingFeed # NoFeed
    THEN replaceScreenshareFeed(w, currentScreenshareFeed, remoteScreensharingFeed)
    ELSE removeScreenshareFeed(w, currentScreenshareFeed)

onCallFeedsChanged(w, c) ==
    IF ~Ok(w) THEN w
    ELSE IF getCallUserId(w, c) = <<>> THEN Throw(w, "Cannot change call feeds without user id")
    ELSE onScreenshareFeedChanged(onUsermediaFeedChanged(w, c), c)

\* disposeCall from the check of call.hangupReason on
hangupAndRemoveFeed(w, c, hangupReason) ==
    IF ~Ok(w) THEN w
    ELSE IF w.callObjs[c].hangupReason = "replaced" THEN w
    ELSE removeCallScreenshareFeed(removeCallFeed(hangupCall(w, c, hangupReason), c), c)

disposeCall(w, c, hangupReason) ==
    hangupAndRemoveFeed(removeCallHandlers(w, c, hangupReason), c, hangupReason)

initCall(w, c) ==
    LET opponentMemberId == getCallUserId(w, c)
        opponentDeviceId == w.callObjs[c].deviceId
        deviceMap == IF opponentMemberId \in DOMAIN w.callHandlers
                     THEN w.callHandlers[opponentMemberId] ELSE EmptyMap IN
    IF ~Ok(w) THEN w
    ELSE IF opponentMemberId = <<>> THEN Throw(w, "Cannot init call without user id")
    ELSE onCallFeedsChanged(
             [w EXCEPT !.callHandlers = MapSet(@, opponentMemberId,
                                               MapSet(deviceMap, opponentDeviceId, c)),
                       !.callObjs[c].listeners = AllListeners], c)

-----------------------------------------------------------------------------
(* 4.D Call graph reconciler: outgoing placement *)

GroupCallId == "G"

\* the (member, device) slots of a graph
GraphSlots(g) ==
    {s \in (Users \cup {NoMember}) \X Devices : s[1] \in DOMAIN g /\ s[2] \in DOMAIN g[s[1]]}

FreeIds(w) == {i \in CallIds : ~w.callObjs[i].alive}

\* createNewMatrixCall(client, roomId, opts): the new call, or 0 for null
createNewMatrixCall(w, opts) ==
    IF <<opts.invitee, opts.opponentDeviceId>> \in w.nulls \/ FreeIds(w) = {} THEN 0
    ELSE CHOOSE i \in FreeIds(w) : \A j \in FreeIds(w) : i <= j

NewOutgoingCall(opts) ==
    [NoCall EXCEPT !.alive = TRUE, !.userId = opts.invitee,
                   !.deviceId = opts.opponentDeviceId,
                   !.sessionId = opts.opponentSessionId, !.dir = "out",
                   !.state = "fledgling"]

\* newCall.placeCallWithCallFeeds(feeds, requestScreenshareFeed): the promise stays
\* unsettled until the transport reports success or failure; the catch callback
\* keeps callMap, which is the map stored under calls[member] when the pass ends
placeCallWithCallFeeds(w, c, feeds, hint) ==
    IF ~Ok(w) THEN w
    ELSE [w EXCEPT !.callObjs[c].state = "invite_sent",
                   !.callObjs[c].pending = TRUE,
                   !.callObjs[c].mapAttached = TRUE,
                   !.callObjs[c].localFeeds = feeds,
                   !.obs.placed = @ \cup {[call |-> c, feeds |-> feeds, hint |-> hint]}]

\* callMap.set(deviceId, newCall) and the placement of the new call
setAndPlace(w, newCall, deviceId, hint) ==
    IF ~Ok(w) THEN w
    ELSE placeCallWithCallFeeds([w EXCEPT !.callMap = MapSet(@, deviceId, newCall)],
                                newCall, CloneFeeds(getLocalFeeds(w)), hint)

\* the inner loop body from createNewMatrixCall on
constructAndPlace(w, member, deviceId) ==
    LET participant == w.participants[<<member, deviceId>>]
        opts == [invitee |-> member, opponentDeviceId |-> deviceId,
                 opponentSessionId |-> participant.sessionId,
                 groupCallId |-> GroupCallId]
        newCall == createNewMatrixCall(w, opts)
        w3 == [w EXCEPT !.obs.created = @ \cup {[opts |-> opts, call |-> newCall]},
                        !.overflow = @ \/ (FreeIds(w) = {}
                                           /\ <<member, deviceId>> \notin w.nulls)] IN
    IF ~Ok(w) THEN w
    ELSE IF newCall = 0
    THEN [w3 EXCEPT !.callMap = MapDel(@, deviceId)]
    ELSE setAndPlace(initCall([w3 EXCEPT !.callObjs[newCall] = NewOutgoingCall(opts)],
                              newCall),
                     newCall, deviceId, participant.screensharing)

\* a slip: the previous call is disposed with the reason of the incoming admission
disposePrevCallAsReplaced(w, prevCall) ==
    IF prevCall # 0 THEN disposeCall(w, prevCall, "replaced") ELSE w

\* if (prevCall !== undefined) this.disposeCall(prevCall, CallErrorCode.NewSession)
disposePrevCall(w, prevCall) ==
    IF prevCall # 0 THEN disposeCall(w, prevCall, "new_session") ELSE w

\* a slip: a call is placed only into an empty slot, whatever session is advertised
PlaceDeviceIfEmpty(w, member, deviceId) ==
    IF ~Ok(w) THEN w
    ELSE IF ~(deviceId \notin DOMAIN w.callMap /\ wantsOutgoingCall(member, deviceId))
    THEN w
    ELSE constructAndPlace([w EXCEPT !.callsChanged = TRUE], member, deviceId)

\* a slip: a wanted slot gets a new call in every pass, whatever call it holds
PlaceDeviceAnew(w, member, deviceId) ==
    LET participant == w.participants[<<member, deviceId>>]
        prevCall == IF deviceId \in DOMAIN w.callMap THEN w.callMap[deviceId] ELSE 0 IN
    IF ~Ok(w) THEN w
    ELSE IF ~wantsOutgoingCall(member, deviceId)
    THEN w
    ELSE constructAndPlace(disposePrevCall([w EXCEPT !.callsChanged = TRUE], prevCall),
                           member, deviceId)

\* the body of the inner loop of placeOutgoingCalls, for one (member, deviceId)
PlaceDevice(w, member, deviceId) ==
    LET participant == w.participants[<<member, deviceId>>]
        prevCall == IF deviceId \in DOMAIN w.callMap THEN w.callMap[deviceId] ELSE 0
        prevSession == IF prevCall = 0 THEN None ELSE w.callObjs[prevCall].sessionId IN
    IF ~Ok(w) THEN w
    ELSE IF ~(prevSession # participant.sessionId /\ wantsOutgoingCall(member, deviceId))
    THEN w
    ELSE constructAndPlace(disposePrevCall([w EXCEPT !.callsChanged = TRUE], prevCall),
                           member, deviceId)

RECURSIVE PlaceDevices(_, _, _)
PlaceDevices(w, member, devs) ==
    IF devs = <<>> THEN w
    ELSE PlaceDevices(PlaceDevice(w, member, Head(devs)), member, Tail(devs))

\* calls.delete(member): the map object leaves the graph, with the callbacks that hold it
DetachMap(w, member) ==
    [w EXCEPT !.calls = MapDel(@, member),
              !.callObjs = [c \in CallIds |->
                  IF @[c].userId = member THEN [@[c] EXCEPT !.mapAttached = FALSE] ELSE @[c]]]

\* const callMap = this.calls.get(member) ?? new Map()
loadCallMap(w, member) ==
    [w EXCEPT !.callMap = IF member \in DOMAIN w.calls THEN w.calls[member] ELSE EmptyMap]

\* the end of the outer loop body: the map is stored, or the member deleted
storeCallMap(w, member) ==
    IF ~Ok(w) THEN
        \* the exception leaves the loop; a map that was already stored keeps its changes
        IF member \in DOMAIN w.calls THEN [w EXCEPT !.calls[member] = w.callMap] ELSE w
    ELSE IF DOMAIN w.callMap # {}
    THEN [w EXCEPT !.calls = MapSet(@, member, w.callMap)]
    ELSE DetachMap(w, member)

\* the body of the outer loop of placeOutgoingCalls, for one member
PlaceMember(w, member) ==
    LET devs == SeqFilter(DeviceOrder,
                          {d \in Devices : <<member, d>> \in DOMAIN w.participants}) IN
    IF ~Ok(w) THEN w
    ELSE storeCallMap(PlaceDevices(loadCallMap(w, member), member, devs), member)

RECURSIVE PlaceMembers(_, _)
PlaceMembers(w, members) ==
    IF members = <<>> THEN w
    ELSE PlaceMembers(PlaceMember(w, Head(members)), Tail(members))

\* if (callsChanged) this.emit(GroupCallEvent.CallsChanged, this.calls)
EmitCallsChangedIf(w, callsChanged) ==
    IF callsChanged THEN [w EXCEPT !.obs.callsChanged = @ + 1] ELSE w

\* let callsChanged = false; what an observer of the pass compares with is kept
beginPass(w) ==
    [w EXCEPT !.callsChanged = FALSE,
              !.before = [calls |-> w.calls, callObjs |-> w.callObjs, state |-> w.state,
                          participants |-> w.participants,
                          callsChanged |-> w.obs.callsChanged]]

\* the end of the pass, and what an observer of the pass sees of it
endPass(w) ==
    IF ~Ok(w) THEN w
    ELSE [w EXCEPT !.obs.passes = Append(@,
              [emitted |-> w.obs.callsChanged - w.before.callsChanged,
               graphChanged |-> w.calls # w.before.calls,
               state |-> w.before.state,
               \* the opponentSessionId of the call of each slot when the pass ends
               sessions |-> [t \in GraphSlots(w.calls) |->
                                w.callObjs[w.calls[t[1]][t[2]]].sessionId]])]

\* the emission at the end of the pass
emitAfterPass(w) == IF ~Ok(w) THEN w ELSE EmitCallsChangedIf(w, w.callsChanged)

placeOutgoingCalls(w) ==
    LET members == SeqFilter(UserOrder,
                             {u \in Users : \E d \in Devices : <<u, d>> \in DOMAIN w.participants}) IN
    IF ~Ok(w) THEN w
    ELSE endPass(emitAfterPass(PlaceMembers(beginPass(w), members)))

-----------------------------------------------------------------------------
(* 4.B Participant view *)

NoTimer == -1

\* a device entry of m.devices for this call; present = FALSE when the member
\* state holds no entry for the device
NoAdvert == [present |-> FALSE, session_id |-> None, expires_ts |-> 0,
             wellFormed |-> FALSE, screenshare |-> FALSE]

Advert(sessionId, expiresTs, wellFormed) ==
    [present |-> TRUE, session_id |-> sessionId, expires_ts |-> expiresTs,
     wellFormed |-> wellFormed, screenshare |-> FALSE]

\* the filter of updateParticipants and updateDevices: invalid and expired devices
ValidDevice(d, t) == d.present /\ d.wellFormed /\ d.expires_ts > t

\* onParticipantsChanged
onParticipantsChanged(w) ==
    IF w.state = Entered THEN placeOutgoingCalls(w) ELSE w

\* a slip: the view is published and the event emitted whether or not the map changed
SetParticipantsAlways(w, value) ==
    IF ~Ok(w) THEN w
    ELSE onParticipantsChanged([w EXCEPT !.participants = value,
                                         !.obs.participantsChanged = @ + 1])

\* set participants(value): only update if the map actually changed
SetParticipants(w, value) ==
    IF ~Ok(w) \/ value = w.participants THEN w
    ELSE onParticipantsChanged([w EXCEPT !.participants = value,
                                         !.obs.participantsChanged = @ + 1])

Min(S) == CHOOSE x \in S : \A y \in S : x <= y

\* this.participantsExpirationTimer = setTimeout(..., nextExpiration - now)
armExpiration(w, nextExpiration) ==
    IF Ok(w) /\ nextExpiration # NoTimer
    THEN [w EXCEPT !.participantsExpirationTimer = nextExpiration]
    ELSE w

\* a slip: entering via another session does not count
enteredHereOnly(w) == w.state = Entered

\* const entered = this.state === GroupCallState.Entered || this.enteredViaAnotherSession
entered(w) == w.state = Entered \/ w.enteredViaAnotherSession

updateParticipants(w) ==
    LET \* the devices that pass the filters and whose member is joined
        kept == {s \in Slots :
                    /\ ValidDevice(w.roomState[s], w.now)
                    /\ ~(~entered(w) /\ s[1] = LocalUserId /\ s[2] = LocalDeviceId)
                    /\ s[1] \in w.joined}
        fromRoom == [s \in kept |->
                        [sessionId |-> w.roomState[s].session_id,
                         screensharing |-> w.roomState[s].screenshare]]
        value == IF entered(w) /\ LocalSlot \notin kept
                 THEN MapSet(fromRoom, LocalSlot,
                             [sessionId |-> LocalSessionId, screensharing |-> FALSE])
                 ELSE fromRoom
        nextExpiration == IF kept = {} THEN NoTimer
                          ELSE Min({w.roomState[s].expires_ts : s \in kept}) IN
    IF ~Ok(w) THEN w
    ELSE IF w.state = Ended
    THEN SetParticipants([w EXCEPT !.participantsExpirationTimer = NoTimer,
                                   !.obs.recomputes = @ + 1], EmptyMap)
    ELSE armExpiration(SetParticipants([w EXCEPT !.participantsExpirationTimer = NoTimer,
                                                 !.obs.recomputes = @ + 1],
                                       value),
                       nextExpiration)

-----------------------------------------------------------------------------
(* 4.C Member-state publisher *)

\* const DEVICE_TIMEOUT = 1000 * 60 * 60
DEVICE_TIMEOUT == 3600000

\* the feeds of a stored device entry
StoredFeeds(a) ==
    IF a.screenshare THEN <<"m.usermedia", "m.screenshare">> ELSE <<"m.usermedia">>

\* the entry of m.devices that the room holds for slot s; an entry that is not well
\* formed lacks a field the filters look at
DeviceEntry(w, s) ==
    [device_id |-> s[2], session_id |-> w.roomState[s].session_id,
     expires_ts |-> w.roomState[s].expires_ts, feeds |-> StoredFeeds(w.roomState[s]),
     wellFormed |-> w.roomState[s].wellFormed]

\* call["m.devices"] of the local user's member state, for this group call
storedDevices(w) ==
    LET devs == SeqFilter(DeviceOrder,
                          {d \in Devices : /\ <<LocalUserId, d>> \in Slots
                                           /\ w.roomState[<<LocalUserId, d>>].present}) IN
    [i \in 1..Len(devs) |-> DeviceEntry(w, <<LocalUserId, devs[i]>>)]

\* Filter out invalid and expired devices
IsValidEntry(w, d) == d.wellFormed /\ d.expires_ts > w.now

validDevices(w) == SelectSeq(storedDevices(w), LAMBDA d : IsValidEntry(w, d))

\* devices.filter(d => d.device_id !== this.client.getDeviceId())
withoutLocalDevice(devices) == SelectSeq(devices, LAMBDA d : d.device_id # LocalDeviceId)

\* the value a device mutation returns: a device list, or null to skip the update
DeviceList(devices) == [skip |-> FALSE, devices |-> devices]
SkipUpdate == [skip |-> TRUE, devices |-> <<>>]

\* the entry addDeviceToMemberState appends for the local device
LocalDeviceEntry(w) ==
    LET feeds == getLocalFeeds(w) IN
    [device_id |-> LocalDeviceId, session_id |-> LocalSessionId,
     expires_ts |-> w.now + DEVICE_TIMEOUT,
     feeds |-> [i \in 1..Len(feeds) |-> feeds[i].purpose],
     wellFormed |-> TRUE]

\* a slip: the prior entry of the local device is kept
addDeviceKeepsPrior(w, devices) == DeviceList(devices \o <<LocalDeviceEntry(w)>>)

\* the mutation of addDeviceToMemberState
addDevice(w, devices) == DeviceList(withoutLocalDevice(devices) \o <<LocalDeviceEntry(w)>>)

\* the mutation of updateMemberState when the call is not entered
removeDevice(w, devices) == DeviceList(withoutLocalDevice(devices))

\* the filter of cleanMemberState; seen: the devices getDevices() reports with a
\* last_seen_ts
keptByClean(w, seen, d) ==
    /\ d.device_id \in seen
    /\ ~(d.device_id = LocalDeviceId /\ w.state # Entered /\ ~w.enteredViaAnotherSession)

\* a slip: the devices count as unchanged when any of them is kept
cleanDevicesSkipsIfAnyKept(w, seen, devices) ==
    LET newDevices == SelectSeq(devices, LAMBDA d : keptByClean(w, seen, d)) IN
    IF Len(newDevices) > 0 \/ Len(devices) = 0 THEN SkipUpdate ELSE DeviceList(newDevices)

\* the mutation of cleanMemberState: null if the devices are unchanged
cleanDevices(w, seen, devices) ==
    LET newDevices == SelectSeq(devices, LAMBDA d : keptByClean(w, seen, d)) IN
    IF Len(newDevices) = Len(devices) THEN SkipUpdate ELSE DeviceList(newDevices)

\* content["m.calls"] of the local user's member state: the entry of this call, if
\* the room holds devices for it, and the entries of the other calls
storedCalls(w) ==
    (IF Len(storedDevices(w)) > 0
     THEN <<[call_id |-> GroupCallId, devices |-> storedDevices(w)]>>
     ELSE <<>>) \o w.otherCalls

\* the entries updateDevices pushes to otherCalls
otherCallsOf(mCalls) == SelectSeq(mCalls, LAMBDA c : c.call_id # GroupCallId)

\* a slip: the entry of this call is written even when it has no devices
newCallsAlways(w, newDevices) ==
    otherCallsOf(storedCalls(w)) \o <<[call_id |-> GroupCallId, devices |-> newDevices]>>

\* the m.calls that updateDevices assembles from the other calls and the new devices
newCalls(w, newDevices) ==
    IF Len(newDevices) > 0
    THEN otherCallsOf(storedCalls(w)) \o <<[call_id |-> GroupCallId, devices |-> newDevices]>>
    ELSE otherCallsOf(storedCalls(w))

\* updateDevices from the result of the mutation on: sendStateEvent, unless it is null
sendMemberState(w, result, keepAlive) ==
    IF ~Ok(w) \/ result.skip THEN w
    ELSE [w EXCEPT !.obs.writes = Append(@, [calls |-> newCalls(w, result.devices),
                                             stateKey |-> LocalUserId,
                                             keepAlive |-> keepAlive,
                                             newDevices |-> result.devices])]

\* updateDevices(fn, keepAlive); newDevices: what fn returns for the valid devices
updateDevices(w, newDevices, keepAlive) ==
    IF ~Ok(w) THEN w
    ELSE sendMemberState([w EXCEPT !.obs.mutations =
                                       Append(@, [input |-> validDevices(w),
                                                  result |-> newDevices])],
                         newDevices, keepAlive)

addDeviceToMemberState(w) == updateDevices(w, addDevice(w, validDevices(w)), FALSE)

\* a slip: the removal of the local device is not marked keepAlive
updateMemberStateNoKeepAlive(w) ==
    IF ~Ok(w) THEN w
    ELSE IF w.state = Entered
    THEN [addDeviceToMemberState([w EXCEPT !.resendMemberStateTimer = FALSE])
             EXCEPT !.awaitingSend = TRUE]
    ELSE updateDevices([w EXCEPT !.resendMemberStateTimer = FALSE],
                       removeDevice(w, validDevices(w)), FALSE)

\* updateMemberState up to its await: the timer is cleared and the write issued
updateMemberState(w) ==
    IF ~Ok(w) THEN w
    ELSE IF w.state = Entered
    THEN [addDeviceToMemberState([w EXCEPT !.resendMemberStateTimer = FALSE])
             EXCEPT !.awaitingSend = TRUE]
    ELSE updateDevices([w EXCEPT !.resendMemberStateTimer = FALSE],
                       removeDevice(w, validDevices(w)), TRUE)

\* updateMemberState after addDeviceToMemberState has resolved: setInterval
armResendTimer(w) ==
    [w EXCEPT !.awaitingSend = FALSE, !.resendMemberStateTimer = TRUE]

\* addDeviceToMemberState has rejected: the error is logged by onStateChanged
memberStateFailed(w) == [w EXCEPT !.awaitingSend = FALSE]

\* onLocalFeedsChanged, the listener of LocalScreenshareStateChanged
onLocalFeedsChanged(w) ==
    IF ~Ok(w) THEN w
    ELSE IF w.state = Entered THEN updateMemberState(w)
    ELSE w

cleanMemberState(w, seen) ==
    updateDevices([w EXCEPT !.obs.seen = seen],
                  cleanDevices(w, seen, validDevices(w)), FALSE)

-----------------------------------------------------------------------------
(* 4.G Lifecycle *)

\* onStateChanged
onStateChanged(w, newState, oldState) ==
    IF newState = Entered \/ oldState = Entered \/ newState = Ended
    THEN updateMemberState(updateParticipants(w))
    ELSE w

\* a slip: the listener that sets the disposed flag is never called
onStateNotSubscribed(w, newState) == w

\* the onState listeners of the pending initLocalCallFeed invocations
onState(w, newState) ==
    IF Ok(w) /\ newState = Uninitialized
    THEN [w EXCEPT !.captures = [i \in DOMAIN @ |-> [@[i] EXCEPT !.disposed = TRUE]]]
    ELSE w

\* a slip: the event is emitted also when the state is assigned the value it has
SetStateAlways(w, value) ==
    IF ~Ok(w) THEN w
    ELSE onState(onStateChanged([w EXCEPT !.state = value, !.obs.stateChanged = @ + 1],
                                value, w.state),
                 value)

\* set state(value)
SetState(w, value) ==
    IF ~Ok(w) \/ value = w.state THEN w
    ELSE onState(onStateChanged([w EXCEPT !.state = value, !.obs.stateChanged = @ + 1],
                                value, w.state),
                 value)

RECURSIVE DisposeCalls(_, _)
\* forEachCall(call => this.disposeCall(call, CallErrorCode.UserHangup))
DisposeCalls(w, slots) ==
    IF slots = <<>> THEN w
    ELSE DisposeCalls(disposeCall(w, w.calls[Head(slots)[1]][Head(slots)[2]], "user_hangup"),
                      Tail(slots))

\* this.localCallFeed = undefined, once removeUserMediaFeed has returned
clearLocalCallFeed(w) ==
    IF Ok(w) THEN [w EXCEPT !.localCallFeed = FALSE, !.audioMuted = FALSE] ELSE w

\* dispose: if (this.localCallFeed) { ... }
removeLocalCallFeed(w) ==
    IF w.localCallFeed THEN clearLocalCallFeed(removeUserMediaFeed(w, LocalFeed)) ELSE w

\* dispose: if (this.localScreenshareFeed) { ... }
removeLocalScreenshareFeed(w) ==
    IF ~Ok(w) \/ ~w.localScreenshareFeed THEN w
    ELSE LET w1 == removeScreenshareFeed(stopStream(w, "m.screenshare"),
                                         LocalScreenshareFeed) IN
         IF Ok(w1) THEN [w1 EXCEPT !.localScreenshareFeed = FALSE] ELSE w1

\* dispose: if (this.transmitTimer !== null) { ... }
clearTransmitTimer(w) == IF Ok(w) THEN [w EXCEPT !.transmitTimer = FALSE] ELSE w

\* dispose, after the calls have been disposed of
clearCallState(w) ==
    IF ~Ok(w) THEN w
    ELSE [w EXCEPT !.calls = EmptyMap,
                   !.callObjs = [c \in CallIds |-> [@[c] EXCEPT !.mapAttached = FALSE]],
                   !.activeSpeaker = NoFeed,
                   !.activeSpeakerLoopInterval = FALSE,
                   !.retryCallCounts = EmptyMap,
                   !.incomingListener = FALSE]

\* dispose from the clearing of the retry interval on
disposeCalls(w) ==
    IF ~Ok(w) THEN w
    ELSE IF w.state # Entered THEN [w EXCEPT !.retryCallLoopInterval = FALSE]
    ELSE clearCallState(DisposeCalls([w EXCEPT !.retryCallLoopInterval = FALSE],
                                     SeqFilter(SlotOrder, GraphSlots(w.calls))))

dispose(w) ==
    IF ~Ok(w) THEN w
    ELSE disposeCalls(clearTransmitTimer(stopAllStreams(
             removeLocalScreenshareFeed(removeLocalCallFeed(w)))))

leave(w) == SetState(dispose(w), Uninitialized)

\* this.room.off(RoomStateEvent.Update, this.onRoomState)
unsubscribeRoom(w) == IF Ok(w) THEN [w EXCEPT !.roomListener = FALSE] ELSE w

terminate(w) == SetState(unsubscribeRoom(dispose(w)), Ended)

-----------------------------------------------------------------------------
(* 4.F Local capture *)

RemoveAt(seq, i) == [j \in 1..(Len(seq) - 1) |-> IF j < i THEN seq[j] ELSE seq[j + 1]]

\* the invocation awaits getUserMediaStream
awaitCapture(w, viaEnter) ==
    [w EXCEPT !.captures = Append(@, [disposed |-> FALSE, left |-> FALSE,
                                      viaEnter |-> viaEnter])]

\* initLocalCallFeed up to the await of getUserMediaStream
initLocalCallFeedStart(w, viaEnter) ==
    IF w.state # Uninitialized
    THEN Throw(w, "Cannot initialize local call feed")
    ELSE awaitCapture(SetState(w, Initializing), viaEnter)

\* initLocalCallFeed after getUserMediaStream resolved, for the i-th pending capture
initLocalCallFeedResolved(w, i) ==
    LET cap == w.captures[i]
        w1 == [acquireStream(w, "m.usermedia")
                  EXCEPT !.captures = RemoveAt(@, i),        \* finally: this.off(onState)
                         !.obs.capture = IF cap.left THEN "left" ELSE "kept"] IN
    IF cap.disposed THEN Throw(w1, "Group call disposed")
    ELSE SetState(addUserMediaFeed(
                      [w1 EXCEPT !.localCallFeed = TRUE,
                                 !.audioMuted = w.initWithAudioMuted \/ ~w.audioTracks \/ w.isPtt],
                      LocalFeed),
                  Initialized)

\* the catch block has set the state: the listener is removed and the error rethrown
rethrowCaptureError(w, i) ==
    Throw([w EXCEPT !.captures = RemoveAt(@, i)], "getUserMediaStream failed")

\* initLocalCallFeed after getUserMediaStream rejected
initLocalCallFeedRejected(w, i) == rethrowCaptureError(SetState(w, Uninitialized), i)

-----------------------------------------------------------------------------
(* 4.D Incoming admission, hangup, retry *)

\* an incoming MatrixCall as the transport hands it over: call = 0 for an object
\* the coordinator has not seen, else the object delivered again
Incoming(roomOk, st, groupCallId, hasOpponent, slot, sessionId) ==
    [roomOk |-> roomOk, state |-> st, groupCallId |-> groupCallId,
     hasOpponent |-> hasOpponent, slot |-> slot, sessionId |-> sessionId, call |-> 0]

\* the slots incoming calls come from: the lower user and a higher one
CallerSlots == {<<UserA, Dev1>>, <<UserC, Dev1>>}

\* the calls that pass every check, and for each check calls that fail it
IncomingCalls ==
    {Incoming(TRUE, "ringing", GroupCallId, TRUE, s, i) : s \in CallerSlots, i \in SessionIds}
    \cup {Incoming(r[1], r[2], r[3], r[4], <<UserA, Dev1>>, "s1") :
            r \in {<<FALSE, "ringing", GroupCallId, TRUE>>,
                   <<FALSE, "ringing", "H", TRUE>>,
                   <<TRUE, "connected", GroupCallId, TRUE>>,
                   <<TRUE, "connected", "H", TRUE>>,
                   <<TRUE, "ringing", "H", TRUE>>,
                   <<TRUE, "ringing", None, TRUE>>,
                   <<TRUE, "ringing", GroupCallId, FALSE>>,
                   <<TRUE, "ringing", "H", FALSE>>}}

NewIncomingCall(inc) ==
    [NoCall EXCEPT !.alive = TRUE, !.userId = inc.slot[1], !.deviceId = inc.slot[2],
                   !.sessionId = inc.sessionId, !.dir = "in", !.state = inc.state]

\* the object of a call that the coordinator holds, delivered again
Redelivered(w, c) ==
    [roomOk |-> TRUE, state |-> w.callObjs[c].state, groupCallId |-> GroupCallId,
     hasOpponent |-> TRUE, slot |-> <<w.callObjs[c].userId, w.callObjs[c].deviceId>>,
     sessionId |-> w.callObjs[c].sessionId, call |-> c]

Outcome(w, inc, what) ==
    [w EXCEPT !.obs.incoming = Append(@, [call |-> inc, outcome |-> what])]

\* a slip: the previous occupant of the slot is left alone
disposeReplacedNot(w, prevCall) == w

\* if (prevCall) this.disposeCall(prevCall, CallErrorCode.Replaced)
disposeReplaced(w, prevCall) ==
    IF prevCall # 0 THEN disposeCall(w, prevCall, "replaced") ELSE w

\* the MatrixCall object of the incoming call becomes known to the coordinator
receiveCall(w, inc, newCall) ==
    IF ~Ok(w) \/ inc.call # 0 THEN w
    ELSE [w EXCEPT !.callObjs[newCall] = NewIncomingCall(inc)]

\* onIncomingCall after initCall: the call is answered, inserted and announced
answerAndInsert(w, inc, newCall) ==
    LET opponent == inc.slot[1]
        deviceId == inc.slot[2]
        deviceMap == IF opponent \in DOMAIN w.calls THEN w.calls[opponent] ELSE EmptyMap
        feeds == CloneFeeds(getLocalFeeds(w)) IN
    IF ~Ok(w) THEN w
    ELSE Outcome([w EXCEPT !.callObjs[newCall].localFeeds = feeds,   \* answerWithCallFeeds
                           !.obs.answered = @ \cup {[call |-> newCall, feeds |-> feeds]},
                           !.calls = MapSet(@, opponent, MapSet(deviceMap, deviceId, newCall)),
                           !.obs.callsChanged = @ + 1],
                 inc, "admitted")

onIncomingCall(w, inc) ==
    LET opponent == inc.slot[1]
        deviceId == inc.slot[2]
        deviceMap == IF opponent \in DOMAIN w.calls THEN w.calls[opponent] ELSE EmptyMap
        prevCall == IF deviceId \in DOMAIN deviceMap THEN deviceMap[deviceId] ELSE 0
        free == FreeIds(w)
        newCall == IF inc.call # 0 THEN inc.call
                   ELSE IF free = {} THEN 0
                   ELSE CHOOSE i \in free : \A j \in free : i <= j IN
    IF ~Ok(w) THEN w
    ELSE IF ~inc.roomOk THEN Outcome(w, inc, "ignored")
    ELSE IF inc.state # "ringing" THEN Outcome(w, inc, "ignored")
    ELSE IF inc.groupCallId = None \/ inc.groupCallId # GroupCallId
    THEN [Outcome(w, inc, "ignored") EXCEPT !.obs.rejected = TRUE]   \* newCall.reject()
    ELSE IF ~inc.hasOpponent THEN Outcome(w, inc, "ignored")
    ELSE IF prevCall # 0 /\ prevCall = inc.call THEN Outcome(w, inc, "ignored")
    ELSE IF newCall = 0 THEN [w EXCEPT !.overflow = TRUE]
    ELSE answerAndInsert(initCall(receiveCall(disposeReplaced(w, prevCall), inc, newCall),
                                  newCall),
                         inc, newCall)

RECURSIVE OnIncomingCalls(_, _)
OnIncomingCalls(w, incs) ==
    IF incs = <<>> THEN w
    ELSE OnIncomingCalls(onIncomingCall(w, Head(incs)), Tail(incs))

\* this.client.on(CallEventHandlerEvent.Incoming, this.onIncomingCall)
subscribeIncoming(w) == IF Ok(w) THEN [w EXCEPT !.incomingListener = TRUE] ELSE w

\* this.retryCallLoopInterval = setInterval(this.onRetryCallLoop, ...)
armRetryCallLoop(w) == IF Ok(w) THEN [w EXCEPT !.retryCallLoopInterval = TRUE] ELSE w

\* enter() from "this.state = GroupCallState.Entered" on; clientCalls is the content
\* of client.callEventHandler.calls
\* this.activeSpeaker = undefined; this.onActiveSpeakerLoop(); and the interval
armActiveSpeakerLoop(w) ==
    IF ~Ok(w) THEN w
    ELSE [onActiveSpeakerLoop([w EXCEPT !.activeSpeaker = NoFeed])
             EXCEPT !.activeSpeakerLoopInterval = TRUE]

enterRest(w, clientCalls) ==
    armActiveSpeakerLoop(
        armRetryCallLoop(OnIncomingCalls(subscribeIncoming(SetState(w, Entered)), clientCalls)))

\* enter() after its await of initLocalCallFeed, when enter() made the invocation
enterAfterCapture(w, viaEnter, clientCalls) ==
    IF viaEnter /\ Ok(w) THEN enterRest(w, clientCalls) ELSE w

\* the retry count of a slot: retriesMap?.get(deviceId) ?? 0
Retries(counts, member, deviceId) ==
    IF member \in DOMAIN counts /\ deviceId \in DOMAIN counts[member]
    THEN counts[member][deviceId] ELSE 0

\* after how many retries the retry loop gives a slot up
MaxRetries == 3

\* a slip: the retry loop retries a slot once more than it should
NeedsRetryOneMore(w) ==
    {s \in DOMAIN w.participants :
        LET call == IF <<s[1], s[2]>> \in GraphSlots(w.calls) THEN w.calls[s[1]][s[2]] ELSE 0
            session == IF call = 0 THEN None ELSE w.callObjs[call].sessionId IN
        /\ session # w.participants[s].sessionId
        /\ wantsOutgoingCall(s[1], s[2])
        /\ Retries(w.retryCallCounts, s[1], s[2]) <= MaxRetries}

\* a slip: the retry loop gives a slot up one retry early
NeedsRetryOneLess(w) ==
    {s \in DOMAIN w.participants :
        LET call == IF <<s[1], s[2]>> \in GraphSlots(w.calls) THEN w.calls[s[1]][s[2]] ELSE 0
            session == IF call = 0 THEN None ELSE w.callObjs[call].sessionId IN
        /\ session # w.participants[s].sessionId
        /\ wantsOutgoingCall(s[1], s[2])
        /\ Retries(w.retryCallCounts, s[1], s[2]) < MaxRetries - 1}

\* the slots onRetryCallLoop counts a retry for
NeedsRetry(w) ==
    {s \in DOMAIN w.participants :
        LET call == IF <<s[1], s[2]>> \in GraphSlots(w.calls) THEN w.calls[s[1]][s[2]] ELSE 0
            session == IF call = 0 THEN None ELSE w.callObjs[call].sessionId IN
        /\ session # w.participants[s].sessionId
        /\ wantsOutgoingCall(s[1], s[2])
        /\ Retries(w.retryCallCounts, s[1], s[2]) < MaxRetries}

\* the retry counts of the slots in retry, each raised by one
countRetries(w, retry) ==
    LET members == {s[1] : s \in retry} IN
    [w EXCEPT !.retryCallCounts =
        [m \in DOMAIN @ \cup members |->
            [d \in (IF m \in DOMAIN @ THEN DOMAIN @[m] ELSE {})
                      \cup {s[2] : s \in {t \in retry : t[1] = m}} |->
                IF <<m, d>> \in retry THEN Retries(@, m, d) + 1 ELSE @[m][d]]]]

onRetryCallLoop(w) ==
    IF NeedsRetry(w) # {} THEN placeOutgoingCalls(countRetries(w, NeedsRetry(w))) ELSE w

\* a slip: a connected call leaves the retry counts alone
onCallStateChangedKeepsCount(w, c, newState) ==
    IF ~w.localCallFeed THEN Throw(w, "TypeError") ELSE w

\* onCallStateChanged(call, state, oldState)
onCallStateChanged(w, c, newState) ==
    LET opponent == w.callObjs[c].userId
        deviceId == w.callObjs[c].deviceId
        retriesMap == IF opponent \in DOMAIN w.retryCallCounts
                      THEN MapDel(w.retryCallCounts[opponent], deviceId) ELSE EmptyMap IN
    IF ~w.localCallFeed THEN Throw(w, "TypeError")     \* this.localCallFeed!.isAudioMuted()
    ELSE IF newState = "connected" /\ opponent \in DOMAIN w.retryCallCounts
    THEN [w EXCEPT !.retryCallCounts =
              IF DOMAIN retriesMap = {} THEN MapDel(@, opponent)
              ELSE MapSet(@, opponent, retriesMap)]
    ELSE w

\* onCallHangup after disposeCall: the slot is deleted and the change announced
deleteSlot(w, c) ==
    LET opponent == w.callObjs[c].userId
        deviceId == w.callObjs[c].deviceId
        deviceMap == MapDel(w.calls[opponent], deviceId) IN
    IF ~Ok(w) THEN w
    ELSE [(IF DOMAIN deviceMap = {} THEN DetachMap(w, opponent)
           ELSE [w EXCEPT !.calls[opponent] = deviceMap])
          EXCEPT !.obs.callsChanged = @ + 1]

\* a slip: the reason of the hangup is not looked at
onCallHangupAnyReason(w, c) ==
    IF ~Occupies(w, c) THEN w
    ELSE deleteSlot(disposeCall(w, c, w.callObjs[c].hangupReason), c)

\* onCallHangup(call)
onCallHangup(w, c) ==
    IF w.callObjs[c].hangupReason = "replaced" THEN w
    ELSE IF ~Occupies(w, c) THEN w
    ELSE deleteSlot(disposeCall(w, c, w.callObjs[c].hangupReason), c)

\* prevCall.getOpponentMember()!: the member, or undefined while the call has none
getOpponentMember(w, c) ==
    IF w.callObjs[c].opponentMember THEN w.callObjs[c].userId ELSE NoMember

\* onCallReplaced from deviceMap.set on: the new call takes the slot of the
\* previous call's opponent device, and CallsChanged is emitted
insertReplacement(w, prevCall, newCall) ==
    LET opponent == getOpponentMember(w, prevCall)
        deviceMap == IF opponent \in DOMAIN w.calls THEN w.calls[opponent] ELSE EmptyMap IN
    IF ~Ok(w) THEN w
    ELSE [w EXCEPT !.calls = MapSet(@, opponent,
                                   MapSet(deviceMap, w.callObjs[prevCall].deviceId, newCall)),
                   !.obs.callsChanged = @ + 1]

\* onCallReplaced(prevCall, newCall)
onCallReplaced(w, prevCall, newCall) ==
    insertReplacement(initCall(disposeCall(w, prevCall, "replaced"), newCall),
                      prevCall, newCall)

\* if (callMap.get(deviceId) === newCall) callMap.delete(deviceId), on the map the
\* pass held: it changes the graph only while that map is stored under the member
deleteFromCallMap(w, c) ==
    LET opponent == w.callObjs[c].userId
        deviceId == w.callObjs[c].deviceId IN
    IF ~Ok(w) THEN w
    ELSE IF w.callObjs[c].mapAttached /\ Occupies(w, c)
    THEN [w EXCEPT !.calls[opponent] = MapDel(@, deviceId),
                   !.callObjs[c].mapAttached = FALSE]
    ELSE [w EXCEPT !.callObjs[c].mapAttached = FALSE]

\* the catch callback of placeCallWithCallFeeds
onPlaceCallFailed(w, c) ==
    deleteFromCallMap(disposeCall([w EXCEPT !.obs.errorEvents = @ + 1,
                                            !.callObjs[c].pending = FALSE],
                                  c, "signalling_failed"),
                      c)

-----------------------------------------------------------------------------
(* State machine *)

\* the slots this device is responsible for calling
WantedSlots == {s \in RemoteSlots : wantsOutgoingCall(s[1], s[2])}

\* the member-state entries the room may hold for a slot
Adverts(s) ==
    IF s = LocalSlot THEN {NoAdvert}
    ELSE IF s = <<UserA, Dev1>> THEN {Advert("s1", 1, TRUE)}
    ELSE IF s = <<UserB, Dev21>> THEN {NoAdvert}
    ELSE {NoAdvert, Advert("s1", 1, TRUE), Advert("s2", 1, TRUE)}

\* the MatrixCall objects that may still reach the coordinator: those in the graph,
\* those whose placement is unsettled, and live ones the coordinator listens to
Reachable(w, c) ==
    /\ w.callObjs[c].alive
    /\ \/ \E s \in GraphSlots(w.calls) : w.calls[s[1]][s[2]] = c
       \/ w.callObjs[c].pending
       \/ (w.callObjs[c].state # "ended" /\ w.callObjs[c].listeners # {})

\* objects that cannot reach the coordinator any more are forgotten
Collect(w) ==
    LET dead == {c \in CallIds : ~Reachable(w, c)} IN
    [w EXCEPT !.callObjs = [c \in CallIds |-> IF c \in dead THEN NoCall ELSE @[c]],
              \* a feed that is in the registry no more is measured no more
              !.volumes = [c \in DOMAIN @ |->
                              IF \E i \in DOMAIN w.userMediaFeeds : w.userMediaFeeds[i].call = c
                              THEN @[c] ELSE 0],
              \* closures that are subscribed to no call are told apart no more
              !.callHandlers = [u \in DOMAIN @ |-> [k \in DOMAIN @[u] |->
                                    IF @[u][k] \in dead \/ @[u][k] = 0 THEN 0
                                    ELSE IF w.callObjs[@[u][k]].listeners \ {"hangup"} = {} THEN 0
                                    ELSE @[u][k]]]]

Commit(w0, op) ==
    /\ lastOp = "idle"
    /\ \E w \in {Collect(w0)} :
        /\ ~w.overflow
        /\ state' = w.state
        /\ participants' = w.participants
        /\ enteredViaAnotherSession' = w.enteredViaAnotherSession
        /\ calls' = w.calls
        /\ callHandlers' = w.callHandlers
        /\ retryCallCounts' = w.retryCallCounts
        /\ callObjs' = w.callObjs
        /\ localCallFeed' = w.localCallFeed
        /\ userMediaFeeds' = w.userMediaFeeds
        /\ retryCallLoopInterval' = w.retryCallLoopInterval
        /\ incomingListener' = w.incomingListener
        /\ captures' = w.captures
        /\ roomState' = w.roomState
        /\ joined' = w.joined
        /\ now' = w.now
        /\ participantsExpirationTimer' = w.participantsExpirationTimer
        /\ roomListener' = w.roomListener
        /\ otherCalls' = w.otherCalls
        /\ resendMemberStateTimer' = w.resendMemberStateTimer
        /\ awaitingSend' = w.awaitingSend
        /\ screenshareFeeds' = w.screenshareFeeds
        /\ localScreenshareFeed' = w.localScreenshareFeed
        /\ shareCaptures' = w.shareCaptures
        /\ activeSpeaker' = w.activeSpeaker
        /\ activeSpeakerLoopInterval' = w.activeSpeakerLoopInterval
        /\ audioMuted' = w.audioMuted
        /\ initWithAudioMuted' = w.initWithAudioMuted
        /\ transmitTimer' = w.transmitTimer
        /\ strayTransmitTimers' = w.strayTransmitTimers
        /\ muteCalls' = w.muteCalls
        /\ isPtt' = w.isPtt
        /\ audioTracks' = w.audioTracks
        /\ volumes' = w.volumes
        /\ lastOp' = op
        /\ obs' = w.obs
    /\ UNCHANGED dirVars

\* the directionality evaluation has not run
NotEvaluated == [done |-> FALSE, ab |-> FALSE, ba |-> FALSE]

\* the room state when the coordinator is constructed
InitRoomState ==
    [s \in Slots |-> IF s = <<UserA, Dev1>> THEN Advert("s1", 1, TRUE) ELSE NoAdvert]

\* the fields as the constructor leaves them before it calls updateParticipants
Constructed ==
    [state |-> Uninitialized, participants |-> EmptyMap,
     enteredViaAnotherSession |-> FALSE, calls |-> EmptyMap, callHandlers |-> EmptyMap,
     retryCallCounts |-> EmptyMap, callObjs |-> [c \in CallIds |-> NoCall],
     localCallFeed |-> FALSE, userMediaFeeds |-> <<>>, retryCallLoopInterval |-> FALSE,
     incomingListener |-> FALSE, captures |-> <<>>, roomState |-> InitRoomState,
     joined |-> Users, now |-> 0, participantsExpirationTimer |-> NoTimer,
     roomListener |-> TRUE, otherCalls |-> <<>>, resendMemberStateTimer |-> FALSE,
     awaitingSend |-> FALSE,
     screenshareFeeds |-> <<>>, localScreenshareFeed |-> FALSE, shareCaptures |-> 0,
     activeSpeaker |-> NoFeed, activeSpeakerLoopInterval |-> FALSE,
     audioMuted |-> FALSE, initWithAudioMuted |-> FALSE, transmitTimer |-> FALSE,
     strayTransmitTimers |-> 0,
     muteCalls |-> <<>>, isPtt |-> FALSE, audioTracks |-> TRUE, volumes |-> Silence,
     obs |-> NoObs, nulls |-> {},
     callMap |-> EmptyMap, callsChanged |-> FALSE, overflow |-> FALSE,
     before |-> NoBefore]

\* the coordinator after construction in a room whose member state is rs
InitCoreIn(rs) ==
    /\ resendMemberStateTimer = FALSE
    /\ awaitingSend = FALSE
    /\ screenshareFeeds = <<>>
    /\ localScreenshareFeed = FALSE
    /\ shareCaptures = 0
    /\ activeSpeaker = NoFeed
    /\ activeSpeakerLoopInterval = FALSE
    /\ audioMuted = FALSE
    /\ initWithAudioMuted = FALSE
    /\ transmitTimer = FALSE
    /\ strayTransmitTimers = 0
    /\ muteCalls = <<>>
    /\ state = Uninitialized
    /\ participants = updateParticipants([Constructed EXCEPT !.roomState = rs]).participants
    /\ enteredViaAnotherSession = FALSE
    /\ calls = EmptyMap
    /\ callHandlers = EmptyMap
    /\ retryCallCounts = EmptyMap
    /\ callObjs = [c \in CallIds |-> NoCall]
    /\ localCallFeed = FALSE
    /\ userMediaFeeds = <<>>
    /\ retryCallLoopInterval = FALSE
    /\ incomingListener = FALSE
    /\ captures = <<>>
    /\ roomState = rs
    /\ joined = Users
    /\ now = 0
    /\ participantsExpirationTimer =
          updateParticipants([Constructed EXCEPT !.roomState = rs]).participantsExpirationTimer
    /\ roomListener = TRUE
    /\ lastOp = "idle"
    /\ obs = NoObs

\* a coordinator without push-to-talk, whose microphone provides an audio track,
\* in a call where nobody speaks
Quiet == isPtt = FALSE /\ audioTracks = TRUE /\ volumes = Silence

\* the coordinator after construction
InitCore == InitCoreIn(InitRoomState) /\ otherCalls = <<>> /\ Quiet

Init ==
    /\ InitCore
    /\ dirA = LocalSlot
    /\ dirB = LocalSlot
    /\ dirRes = NotEvaluated

\* client.callEventHandler.calls when enter() walks it: nothing, or one call
\* (a valid one from a lower or a higher slot, or one of another group call)
ClientCalls ==
    {<<>>} \cup {<<Incoming(TRUE, "ringing", GroupCallId, TRUE, s, "s1")>> : s \in CallerSlots}
           \cup {<<Incoming(TRUE, "ringing", "H", TRUE, <<UserA, Dev1>>, "s1")>>}

\* the session of the call the graph holds for a slot, or None
SessionAt(s) ==
    IF s \in GraphSlots(calls) THEN callObjs[calls[s[1]][s[2]]].sessionId ELSE None

\* the slots createNewMatrixCall may be asked for, and so may return null for
Nulls(rs) ==
    SUBSET {s \in WantedSlots : rs[s].present /\ rs[s].session_id # SessionAt(s)}

\* the observer has seen what the last handler did
Observe ==
    /\ lastOp # "idle"
    /\ lastOp' = "idle"
    /\ obs' = NoObs
    /\ UNCHANGED <<state, participants, enteredViaAnotherSession, calls, callHandlers,
                   retryCallCounts, callObjs, localCallFeed, userMediaFeeds,
                   retryCallLoopInterval, incomingListener, captures, roomState, joined,
                   now, participantsExpirationTimer, roomListener, otherCalls,
                   resendMemberStateTimer, awaitingSend, mediaVars, dirVars>>

InitLocalCallFeed ==
    /\ Len(captures) < MaxCaptures
    /\ Len(userMediaFeeds) < MaxFeeds
    /\ Commit(initLocalCallFeedStart(Cur({}), FALSE), "initLocalCallFeed")

Enter ==
    /\ Len(captures) < MaxCaptures
    /\ Len(userMediaFeeds) < MaxFeeds
    /\ \E nulls \in IF state = Initialized THEN Nulls(roomState) ELSE {{}},
          clientCalls \in IF state = Initialized THEN ClientCalls ELSE {<<>>} :
        LET w == Cur(nulls) IN
        Commit(IF state = Uninitialized THEN initLocalCallFeedStart(w, TRUE)
               ELSE IF state # Initialized THEN Throw(w, "Cannot enter call")
               ELSE enterRest(w, clientCalls),
               "enter")

\* getUserMediaStream resolves; an enter() that awaited it goes on
CaptureResolves ==
    \E i \in DOMAIN captures :
    \E nulls \in IF captures[i].viaEnter /\ ~captures[i].disposed
                 THEN Nulls(roomState) ELSE {{}},
       clientCalls \in IF captures[i].viaEnter /\ ~captures[i].disposed
                       THEN ClientCalls ELSE {<<>>} :
        Commit(enterAfterCapture(initLocalCallFeedResolved(Cur(nulls), i),
                                 captures[i].viaEnter, clientCalls),
               IF captures[i].viaEnter THEN "enter" ELSE "initLocalCallFeed")

CaptureRejects ==
    \E i \in DOMAIN captures :
        Commit(initLocalCallFeedRejected(Cur({}), i), "captureFailed")

Leave ==
    LET w == Cur({}) IN
    Commit(leave([w EXCEPT !.captures = [i \in DOMAIN @ |-> [@[i] EXCEPT !.left = TRUE]]]),
           "leave")

Terminate == Commit(terminate(Cur({})), "terminate")

SetEnteredViaAnotherSession ==
    \E v \in BOOLEAN,
       nulls \in IF state = Entered THEN Nulls(roomState) ELSE {{}} :
        Commit(updateParticipants([Cur(nulls) EXCEPT !.enteredViaAnotherSession = v]),
               "setEnteredViaAnotherSession")

\* onRoomState
onRoomState(w) == IF w.roomListener THEN updateParticipants(w) ELSE w

RoomStateUpdate ==
    \E s \in Slots :
        \E a \in Adverts(s) \ {roomState[s]} :
            \E nulls \in IF state = Entered /\ roomListener
                         THEN Nulls([roomState EXCEPT ![s] = a]) ELSE {{}} :
                Commit(onRoomState([Cur(nulls) EXCEPT !.roomState[s] = a]), "onRoomState")

IncomingCall ==
    /\ incomingListener
    /\ \E inc \in IncomingCalls \cup
                  {Redelivered(Cur({}), c) : c \in {x \in CallIds : callObjs[x].dir = "in"}} :
          Commit(onIncomingCall(Cur({}), inc), "onIncomingCall")

RetryTick ==
    /\ retryCallLoopInterval
    /\ \E nulls \in Nulls(roomState) :
          Commit(onRetryCallLoop(Cur(nulls)), "onRetryCallLoop")

\* the call connects: CallEvent.State reaches the coordinator if it listens
CallConnected ==
    \E c \in CallIds :
        /\ callObjs[c].alive
        /\ callObjs[c].state \notin {"ended", "connected"}
        /\ LET w == [Cur({}) EXCEPT !.callObjs[c].state = "connected"] IN
           Commit(IF "state" \in callObjs[c].listeners
                  THEN onCallStateChanged(w, c, "connected") ELSE w,
                  "onCallStateChanged")

\* the remote side hangs up: CallEvent.Hangup reaches the coordinator if it listens
\* the reasons a call may report with its hangup: the opponent hung up, or the
\* transport replaced the call
HangupReasons == {"user_hangup", "replaced"}

CallHangup ==
    \E c \in CallIds, reason \in HangupReasons :
        /\ callObjs[c].alive
        /\ callObjs[c].state # "ended"
        /\ LET w == [Cur({}) EXCEPT !.callObjs[c].state = "ended",
                                    !.callObjs[c].hangupReason = reason,
                                    !.obs.hangup = IF "hangup" \in callObjs[c].listeners
                                                   THEN [call |-> c, reason |-> reason]
                                                   ELSE @] IN
           Commit(IF "hangup" \in callObjs[c].listeners THEN onCallHangup(w, c) ELSE w,
                  "onCallHangup")

\* the transport replaces a call the coordinator listens to by a call of the same
\* opponent device: CallEvent.Replaced reaches the coordinator, before or after
\* the hangup the previous call reports with reason Replaced
CallReplaced ==
    \E c \in CallIds, sessionId \in SessionIds, known \in BOOLEAN :
        /\ callObjs[c].alive
        \* an incoming call was admitted with its opponent member, an answered call
        \* has one; a placed call that is not answered may have none yet (the
        \* fallbacks to call.invitee in getCallUserId and onCallHangup)
        /\ callObjs[c].dir = "in" \/ callObjs[c].state = "connected" => known
        /\ "replaced" \in callObjs[c].listeners
        /\ callObjs[c].state # "ended" \/ callObjs[c].hangupReason = "replaced"
        /\ FreeIds(Cur({})) # {}
        /\ LET newCall == CHOOSE i \in FreeIds(Cur({})) : \A j \in FreeIds(Cur({})) : i <= j
               inc == Incoming(TRUE, "ringing", GroupCallId, TRUE,
                               <<callObjs[c].userId, callObjs[c].deviceId>>, sessionId)
               w == onCallReplaced([Cur({}) EXCEPT !.callObjs[newCall] = NewIncomingCall(inc),
                                                   !.callObjs[c].opponentMember = known],
                                   c, newCall) IN
           \* the observer looks at the previous call as the handler leaves it
           Commit([w EXCEPT !.obs.replaced =
                       [prevCall |-> c, newCall |-> newCall, slot |-> inc.slot,
                        prevListeners |-> w.callObjs[c].listeners,
                        member |-> getOpponentMember(w, c),
                        prevState |-> callObjs[c].state]],
                  "onCallReplaced")

PlaceCallResolves ==
    \E c \in CallIds :
        /\ callObjs[c].pending
        /\ Commit([Cur({}) EXCEPT !.callObjs[c].pending = FALSE,
                                   !.callObjs[c].mapAttached = FALSE], "placeCallResolved")

PlaceCallRejects ==
    \E c \in CallIds :
        /\ callObjs[c].pending
        /\ Commit(onPlaceCallFailed(Cur({}), c), "placeCallFailed")

\* sendStateEvent of an updateMemberState that added the local device resolves
MemberStateSent ==
    /\ awaitingSend
    /\ Commit(armResendTimer(Cur({})), "memberStateSent")

\* sendStateEvent of an updateMemberState that added the local device rejects
MemberStateSendFails ==
    /\ awaitingSend
    /\ Commit(memberStateFailed(Cur({})), "memberStateSendFailed")

\* the resend interval fires
ResendTick ==
    /\ resendMemberStateTimer
    /\ Commit(addDeviceToMemberState(Cur({})), "resendMemberState")

\* the devices of the local user that getDevices() may report as seen
LocalUserDevices == {s[2] : s \in {t \in Slots : t[1] = LocalUserId}}

CleanMemberState ==
    \E seen \in SUBSET LocalUserDevices :
        Commit(cleanMemberState(Cur({}), seen), "cleanMemberState")

\* the coordinator in a room whose members come, go and call: the application
\* enters and leaves; media capture succeeds
Next ==
    \/ Enter
    \/ CaptureResolves
    \/ Leave
    \/ SetEnteredViaAnotherSession
    \/ RoomStateUpdate
    \/ IncomingCall
    \/ RetryTick
    \/ CallConnected
    \/ CallHangup
    \/ PlaceCallResolves
    \/ PlaceCallRejects
    \/ Observe

Spec == Init /\ [][Next]_vars

-----------------------------------------------------------------------------
(* The entered coordinator under its retry timer                              *)

\* the entered coordinator and its retry loop: members come and go, calls connect,
\* fail and hang up; the application stays in the call
NextRetry ==
    \/ Enter
    \/ CaptureResolves
    \/ RoomStateUpdate
    \/ RetryTick
    \/ CallConnected
    \/ CallHangup
    \/ PlaceCallResolves
    \/ PlaceCallRejects
    \/ Observe

\* setInterval fires onRetryCallLoop every retryCallInterval for as long as the
\* interval is armed, whatever other events arrive in between; every handler returns
RetryTimerFires ==
    /\ lastOp = "idle"
    /\ retryCallLoopInterval
    /\ lastOp' = "onRetryCallLoop"

SpecRetry ==
    Init /\ [][NextRetry]_vars /\ SF_lastOp(RetryTimerFires) /\ WF_lastOp(Observe)

-----------------------------------------------------------------------------
(* The retry loop with two slots to call                                      *)

\* a room in which two devices above the local one have joined the call
RetryRoomState ==
    [s \in Slots |-> IF s \in WantedSlots THEN Advert("s1", 1, TRUE) ELSE NoAdvert]

InitSlots ==
    /\ InitCoreIn(RetryRoomState)
    /\ Quiet
    /\ otherCalls = <<>>
    /\ dirA = LocalSlot
    /\ dirB = LocalSlot
    /\ dirRes = NotEvaluated

\* the application enters; calls are placed, connect, fail and are hung up, and the
\* retry timer fires
NextSlots ==
    \/ Enter
    \/ CaptureResolves
    \/ RetryTick
    \/ CallConnected
    \/ CallHangup
    \/ PlaceCallResolves
    \/ PlaceCallRejects
    \/ Observe

SpecSlots == InitSlots /\ [][NextSlots]_vars

-----------------------------------------------------------------------------
(* The member-state publisher                                                 *)

\* what the room may hold of the local user when the coordinator is constructed: no
\* entry, an entry of an earlier session or an expired one for the local device; no
\* entry, a valid or a malformed one for the user's other device
PublisherRoomStates ==
    {[s \in Slots |-> IF s = LocalSlot THEN l
                      ELSE IF s = <<UserB, Dev21>> THEN o
                      ELSE IF s = <<UserA, Dev1>> THEN Advert("s1", 1, TRUE)
                      ELSE NoAdvert] :
        l \in {NoAdvert, Advert("s1", 1, TRUE), Advert("s1", 0, TRUE)},
        o \in {NoAdvert, Advert("s1", 1, TRUE), Advert("s1", 1, FALSE)}}

\* the entries of other calls the local member state may hold
OtherCallsStored == {<<>>, <<[call_id |-> "H", devices |-> <<>>]>>}

InitPublisher ==
    /\ \E rs \in PublisherRoomStates : InitCoreIn(rs)
    /\ Quiet
    /\ otherCalls \in OtherCallsStored
    /\ dirA = LocalSlot
    /\ dirB = LocalSlot
    /\ dirRes = NotEvaluated

NextPublisher ==
    \/ Enter
    \/ CaptureResolves
    \/ Leave
    \/ Terminate
    \/ SetEnteredViaAnotherSession
    \/ MemberStateSent
    \/ MemberStateSendFails
    \/ ResendTick
    \/ CleanMemberState
    \/ Observe

SpecPublisher == InitPublisher /\ [][NextPublisher]_vars

-----------------------------------------------------------------------------
(* The participant view under room state that changes and time that passes:  *)
(* the members advertise, renew and lose devices, join and leave the room,   *)
(* and the expiration timer fires when it is due                             *)

MaxNow == 2

Sharing(a) == [a EXCEPT !.screenshare = TRUE]

\* the member-state entries the room may hold for a slot: of the lower user, with
\* either session, expiring at 1 or 2, sharing a screen or malformed; of the local
\* device, from an earlier session or from this one
ViewAdverts(s) ==
    IF s = <<UserA, Dev1>>
    THEN {NoAdvert, Advert("s1", 1, TRUE), Advert("s1", 2, TRUE), Advert("s2", 2, TRUE),
          Sharing(Advert("s1", 2, TRUE)), Advert("s1", 2, FALSE)}
    ELSE IF s = LocalSlot
    THEN {NoAdvert, Advert("s1", 1, TRUE), Advert(LocalSessionId, 2, TRUE)}
    ELSE {NoAdvert}

ViewRoomStates ==
    {[s \in Slots |-> IF s = <<UserA, Dev1>> THEN a
                      ELSE IF s = LocalSlot THEN l ELSE NoAdvert] :
        a \in {NoAdvert, Advert("s1", 1, TRUE)}, l \in {NoAdvert, Advert("s1", 1, TRUE)}}

InitView ==
    /\ \E rs \in ViewRoomStates : InitCoreIn(rs)
    /\ Quiet
    /\ otherCalls = <<>>
    /\ dirA = LocalSlot
    /\ dirB = LocalSlot
    /\ dirRes = NotEvaluated

\* RoomStateEvent.Update for a member-state event
MemberStateUpdate ==
    \E s \in Slots :
        \E a \in ViewAdverts(s) \ {roomState[s]} :
            Commit(onRoomState([Cur({}) EXCEPT !.roomState[s] = a]), "onRoomState")

\* RoomStateEvent.Update for a membership event of the lower user
MembershipUpdate ==
    \E j \in {joined \ {UserA}, joined \cup {UserA}} \ {joined} :
        Commit(onRoomState([Cur({}) EXCEPT !.joined = j]), "onRoomState")

\* the callback of participantsExpirationTimer: () => this.updateParticipants()
ExpirationFires ==
    /\ participantsExpirationTimer # NoTimer
    /\ participantsExpirationTimer <= now
    /\ Commit(updateParticipants(Cur({})), "participantsExpired")

\* Date.now() moves on; a timer that is due fires before it does
AdvanceTime ==
    /\ lastOp = "idle"
    /\ now < MaxNow
    /\ participantsExpirationTimer = NoTimer \/ participantsExpirationTimer > now
    /\ now' = now + 1
    /\ UNCHANGED <<state, participants, enteredViaAnotherSession, calls, callHandlers,
                   retryCallCounts, callObjs, localCallFeed, userMediaFeeds,
                   retryCallLoopInterval, incomingListener, captures, roomState, joined,
                   participantsExpirationTimer, roomListener, otherCalls,
                   resendMemberStateTimer, awaitingSend, mediaVars, lastOp, obs, dirVars>>

NextView ==
    \/ Enter
    \/ CaptureResolves
    \/ Leave
    \/ Terminate
    \/ SetEnteredViaAnotherSession
    \/ MemberStateUpdate
    \/ MembershipUpdate
    \/ ExpirationFires
    \/ AdvanceTime
    \/ Observe

SpecView == InitView /\ [][NextView]_vars

-----------------------------------------------------------------------------
(* 5.E Feeds: remote feeds come and go, the screen is shared, speakers change *)

\* the most screen captures at a time, awaited or held in the registry
MaxShares == 2
\* the streams a call's remote feed of one purpose is told apart by
MaxStreams == 2

\* the calls forEachCall walks
GraphCalls(w) == {w.calls[s[1]][s[2]] : s \in GraphSlots(w.calls)}

\* forEachCall(call => call.pushLocalFeed(this.localScreenshareFeed!.clone()))
pushLocalScreenshareFeed(w) ==
    IF ~Ok(w) THEN w
    ELSE [w EXCEPT !.callObjs = [c \in CallIds |->
              IF c \in GraphCalls(w)
              THEN [@[c] EXCEPT !.localFeeds = Append(@, LocalScreenshareFeed.purpose)]
              ELSE @[c]]]

\* forEachCall(call => { if (call.localScreensharingFeed) call.removeLocalFeed(...) })
removeLocalScreenshareFeeds(w) ==
    [w EXCEPT !.callObjs = [c \in CallIds |->
         IF c \in GraphCalls(w)
         THEN [@[c] EXCEPT !.localFeeds = SeqFilter(@, {LocalFeed.purpose})]
         ELSE @[c]]]

\* setScreensharingEnabled(false) while the screen is shared
stopScreensharing(w) ==
    LET w1 == removeScreenshareFeed(stopStream(removeLocalScreenshareFeeds(w),
                                               "m.screenshare"),
                                    LocalScreenshareFeed) IN
    IF Ok(w1) THEN onLocalFeedsChanged([w1 EXCEPT !.localScreenshareFeed = FALSE]) ELSE w1

\* setScreensharingEnabled up to its await of getScreensharingStream, or to its end
setScreensharingEnabled(w, enabled) ==
    IF enabled = w.localScreenshareFeed THEN w           \* return enabled
    ELSE IF enabled THEN [w EXCEPT !.shareCaptures = @ + 1]
    ELSE stopScreensharing(w)

\* setScreensharingEnabled(true) after getScreensharingStream resolved
screensharingStreamResolved(w) ==
    pushLocalScreenshareFeed(
        onLocalFeedsChanged(
            addScreenshareFeed([acquireStream(w, "m.screenshare")
                                   EXCEPT !.shareCaptures = @ - 1,
                                          !.localScreenshareFeed = TRUE],
                               LocalScreenshareFeed)))

\* setScreensharingEnabled(true) after getScreensharingStream rejected: with
\* throwOnFail the error is rethrown, else GroupCallEvent.Error is emitted
screensharingStreamRejected(w, throwOnFail) ==
    IF throwOnFail
    THEN Throw([w EXCEPT !.shareCaptures = @ - 1], "getScreensharingStream failed")
    ELSE [w EXCEPT !.shareCaptures = @ - 1, !.obs.errorEvents = @ + 1]

\* the screen captures the registry holds a feed of
LocalShares == Cardinality({i \in DOMAIN screenshareFeeds : isLocal(screenshareFeeds[i])})

SetScreensharingEnabled ==
    \E enabled \in BOOLEAN :
        /\ enabled /\ ~localScreenshareFeed => shareCaptures + LocalShares < MaxShares
        /\ Commit(setScreensharingEnabled(Cur({}), enabled), "setScreensharingEnabled")

ScreenCaptureResolves ==
    /\ shareCaptures > 0
    /\ Commit(screensharingStreamResolved(Cur({})), "screenCaptureResolved")

ScreenCaptureRejects ==
    /\ shareCaptures > 0
    /\ \E throwOnFail \in BOOLEAN :
          Commit(screensharingStreamRejected(Cur({}), throwOnFail), "screenCaptureFailed")

\* the opponent's streams of a call change: CallEvent.FeedsChanged reaches the
\* coordinator if it listens
CallFeedsChanged ==
    \E c \in CallIds, usermedia \in 0..MaxStreams, screenshare \in 0..1 :
        /\ callObjs[c].alive
        /\ callObjs[c].state # "ended"
        /\ <<usermedia, screenshare>> #
              <<callObjs[c].remoteUsermediaFeed, callObjs[c].remoteScreensharingFeed>>
        /\ LET w == [Cur({}) EXCEPT !.callObjs[c].remoteUsermediaFeed = usermedia,
                                    !.callObjs[c].remoteScreensharingFeed = screenshare] IN
           Commit(IF "feeds_changed" \in callObjs[c].listeners
                  THEN onCallFeedsChanged(w, c) ELSE w,
                  "onCallFeedsChanged")

\* the feed sources the registry holds a user-media feed of
FeedSources == {userMediaFeeds[i].call : i \in DOMAIN userMediaFeeds}

\* somebody raises or lowers their voice
VolumeChanges ==
    /\ lastOp = "idle"
    /\ \E c \in FeedSources, v \in 0..MaxVolume :
          /\ v # volumes[c]
          /\ volumes' = [volumes EXCEPT ![c] = v]
    /\ UNCHANGED <<state, participants, enteredViaAnotherSession, calls, callHandlers,
                   retryCallCounts, callObjs, localCallFeed, userMediaFeeds,
                   retryCallLoopInterval, incomingListener, captures, roomState, joined,
                   now, participantsExpirationTimer, roomListener, otherCalls,
                   resendMemberStateTimer, awaitingSend, lastOp, obs, dirVars,
                   screenshareFeeds, localScreenshareFeed, shareCaptures, activeSpeaker,
                   activeSpeakerLoopInterval, audioMuted, initWithAudioMuted, transmitTimer,
                   strayTransmitTimers, muteCalls, isPtt, audioTracks>>

\* the active-speaker interval fires
ActiveSpeakerTick ==
    /\ activeSpeakerLoopInterval
    /\ Commit(onActiveSpeakerLoop(Cur({})), "onActiveSpeakerLoop")

\* a call of this group call comes in from a remote device
IncomingGroupCall ==
    /\ incomingListener
    /\ \E s \in CallerSlots :
          Commit(onIncomingCall(Cur({}), Incoming(TRUE, "ringing", GroupCallId, TRUE, s, "s1")),
                 "onIncomingCall")

\* the coordinator among callers whose streams change, while the application
\* shares and unshares its screen
NextShare ==
    \/ Enter
    \/ CaptureResolves
    \/ Leave
    \/ IncomingGroupCall
    \/ CallFeedsChanged
    \/ CallHangup
    \/ SetScreensharingEnabled
    \/ ScreenCaptureResolves
    \/ ScreenCaptureRejects
    \/ Observe

SpecShare == Init /\ [][NextShare]_vars

\* the coordinator among callers whose streams and voices change
NextSpeaker ==
    \/ Enter
    \/ CaptureResolves
    \/ Leave
    \/ IncomingGroupCall
    \/ CallFeedsChanged
    \/ CallHangup
    \/ VolumeChanges
    \/ ActiveSpeakerTick
    \/ Observe

SpecSpeaker == Init /\ [][NextSpeaker]_vars

-----------------------------------------------------------------------------
(* 5.G Replacement: the transport replaces calls while they are placed and hung up *)

NextReplace ==
    \/ Enter
    \/ CaptureResolves
    \/ Leave
    \/ RoomStateUpdate
    \/ IncomingGroupCall
    \/ CallConnected
    \/ CallHangup
    \/ CallReplaced
    \/ PlaceCallResolves
    \/ PlaceCallRejects
    \/ Observe

SpecReplace == Init /\ [][NextReplace]_vars

-----------------------------------------------------------------------------
(* 5.H Late failures: placements fail after other calls have taken their slots,
   while the opponents' streams come and go *)

NextFailure ==
    \/ Enter
    \/ CaptureResolves
    \/ RoomStateUpdate
    \/ IncomingGroupCall
    \/ CallFeedsChanged
    \/ CallReplaced
    \/ PlaceCallResolves
    \/ PlaceCallRejects
    \/ Observe

SpecFailure == Init /\ [][NextFailure]_vars

-----------------------------------------------------------------------------
(* 5.I Calls in flight: two devices to call, whose adverts change while placements
   are unsettled and the retry timer fires *)

NextInFlight ==
    \/ Enter
    \/ CaptureResolves
    \/ RoomStateUpdate
    \/ RetryTick
    \/ PlaceCallResolves
    \/ PlaceCallRejects
    \/ Observe

SpecInFlight == InitSlots /\ [][NextInFlight]_vars

-----------------------------------------------------------------------------
(* 5.J Membership refresh: the application enters, leaves, terminates and shares its
   screen while member-state writes complete and the refresh interval fires *)

NextRefresh ==
    \/ Enter
    \/ CaptureResolves
    \/ Leave
    \/ Terminate
    \/ SetScreensharingEnabled
    \/ ScreenCaptureResolves
    \/ ScreenCaptureRejects
    \/ MemberStateSent
    \/ MemberStateSendFails
    \/ ResendTick
    \/ Observe

SpecRefresh == Init /\ [][NextRefresh]_vars

-----------------------------------------------------------------------------
(* 5.K Local streams: the application captures the microphone and the screen,
   leaves and terminates while captures are pending or held *)

NextStreams ==
    \/ InitLocalCallFeed
    \/ Enter
    \/ CaptureResolves
    \/ CaptureRejects
    \/ Leave
    \/ Terminate
    \/ SetScreensharingEnabled
    \/ ScreenCaptureResolves
    \/ ScreenCaptureRejects
    \/ Observe

SpecStreams == Init /\ [][NextStreams]_vars

-----------------------------------------------------------------------------
(* 5.F Microphone: the application mutes and unmutes, with and without push-to-talk *)

\* the most setMicrophoneMuted invocations at an await at a time
MaxMuteCalls == 2
\* no unmute is started under push-to-talk once this many transmit timeouts are
\* pending or may yet be set
MaxTransmitTimers == 2

isMicrophoneMuted(w) == IF w.localCallFeed THEN w.audioMuted ELSE TRUE

\* the bit setMicrophoneMuted writes: the local feed's, or the deferred initial one
MuteBit(w) == IF w.localCallFeed THEN w.audioMuted ELSE w.initWithAudioMuted

\* if (this.isPtt) { ... }: the maximum transmit timer is set or cleared; setTimeout
\* over a handle whose timeout is pending leaves that timeout running
setTransmitTimer(w, muted) ==
    IF ~w.isPtt THEN w
    ELSE IF ~muted /\ isMicrophoneMuted(w)
    THEN [w EXCEPT !.transmitTimer = TRUE,
                   !.strayTransmitTimers = IF w.transmitTimer THEN @ + 1 ELSE @]
    ELSE IF muted /\ ~isMicrophoneMuted(w) THEN [w EXCEPT !.transmitTimer = FALSE]
    ELSE w

\* if (this.localCallFeed) { ...setAudioVideoMuted(muted, null) } else { initWithAudioMuted = muted }
setLocalMuteBit(w, muted) ==
    IF ~Ok(w) THEN w
    ELSE IF w.localCallFeed THEN [w EXCEPT !.audioMuted = muted]
    ELSE [w EXCEPT !.initWithAudioMuted = muted]

\* forEachCall(call => setTracksEnabled(call.localUsermediaFeed!.stream...)): a
\* call without a local user-media feed makes the access throw
setCallTracksEnabled(w) ==
    IF ~Ok(w) THEN w
    ELSE IF \E c \in GraphCalls(w) :
               \A i \in DOMAIN w.callObjs[c].localFeeds :
                   w.callObjs[c].localFeeds[i] # LocalFeed.purpose
    THEN Throw(w, "TypeError")
    ELSE w

\* this.emit(GroupCallEvent.LocalMuteStateChanged, muted, ...): the observer
\* sees the event and the bit as it is then
emitLocalMuteStateChanged(w, muted) ==
    IF ~Ok(w) THEN w
    ELSE [w EXCEPT !.obs.muteEvents = Append(@, [muted |-> muted, bit |-> MuteBit(w)])]

\* a plausible slip: the event is emitted before the bit is written
emitThenMute(w, muted) ==
    setCallTracksEnabled(setLocalMuteBit(emitLocalMuteStateChanged(w, muted), muted))

\* setMicrophoneMuted from the write of the bit to the emission
muteThenEmit(w, muted) ==
    emitLocalMuteStateChanged(setCallTracksEnabled(setLocalMuteBit(w, muted)), muted)

\* the invocation awaits: what it was asked, where it waits, what it has emitted
awaitMute(w, muted, at, emitted) ==
    [w EXCEPT !.muteCalls = Append(@, [muted |-> muted, at |-> at, emitted |-> emitted])]

\* the invocation returns
returnMute(w, value, muted, emitted) ==
    [w EXCEPT !.obs.returned = Append(@, [value |-> value, muted |-> muted,
                                           emitted |-> emitted])]

\* setMicrophoneMuted from the evaluation of sendUpdatesBefore to its next await
setMicrophoneMutedChecked(w, muted) ==
    LET w1 == setTransmitTimer(w, muted)
        w2 == muteThenEmit(w1, muted) IN
    IF ~muted /\ w.isPtt THEN awaitMute(w1, muted, "sendUpdatesBefore", 0)
    ELSE IF ~Ok(w2) THEN w2
    ELSE awaitMute(w2, muted, "sendUpdatesAfter",
                   Len(w2.obs.muteEvents) - Len(w.obs.muteEvents))

\* setMicrophoneMuted up to its first await
setMicrophoneMuted(w, muted) ==
    IF ~muted THEN awaitMute(w, muted, "hasAudioDevice", 0)
    ELSE setMicrophoneMutedChecked(w, muted)

\* hasAudioDevice() has resolved for the i-th pending invocation
audioDeviceChecked(w, i, hasAudioDevice) ==
    LET w1 == [w EXCEPT !.muteCalls = RemoveAt(@, i)] IN
    IF ~hasAudioDevice THEN returnMute(w1, FALSE, w.muteCalls[i].muted, 0)
    ELSE setMicrophoneMutedChecked(w1, w.muteCalls[i].muted)

\* sendUpdates() has resolved for the i-th pending invocation; it never rejects
updatesSent(w, i) ==
    LET inv == w.muteCalls[i]
        w1 == [w EXCEPT !.muteCalls = RemoveAt(@, i)]
        w2 == muteThenEmit(w1, inv.muted) IN
    IF inv.at = "sendUpdatesAfter" THEN returnMute(w1, TRUE, inv.muted, inv.emitted)
    ELSE IF ~Ok(w2) THEN w2
    ELSE returnMute(w2, TRUE, inv.muted, Len(w2.obs.muteEvents) - Len(w.obs.muteEvents))

\* the timeouts a setMicrophoneMuted(false) that awaits hasAudioDevice may yet set
UnmutesToCheck ==
    Cardinality({i \in DOMAIN muteCalls :
                    ~muteCalls[i].muted /\ muteCalls[i].at = "hasAudioDevice"})

\* the transmit timeouts that are pending
PendingTransmitTimers == strayTransmitTimers + (IF transmitTimer THEN 1 ELSE 0)

SetMicrophoneMuted ==
    \E muted \in BOOLEAN :
        /\ Len(muteCalls) < MaxMuteCalls
        /\ ~muted /\ isPtt => PendingTransmitTimers + UnmutesToCheck < MaxTransmitTimers
        /\ Commit(setMicrophoneMuted(Cur({}), muted),
                  IF muted THEN "setMicrophoneMuted(true)" ELSE "setMicrophoneMuted(false)")

AudioDeviceChecked ==
    \E i \in DOMAIN muteCalls, hasAudioDevice \in BOOLEAN :
        /\ muteCalls[i].at = "hasAudioDevice"
        /\ Commit(audioDeviceChecked(Cur({}), i, hasAudioDevice), "setMicrophoneMuted(false)")

UpdatesSent ==
    \E i \in DOMAIN muteCalls :
        /\ muteCalls[i].at # "hasAudioDevice"
        /\ Commit(updatesSent(Cur({}), i), "sendUpdates")

\* the maximum transmit time is over: a pending timeout, the one whose handle the
\* coordinator holds or a stray one, fires once and calls setMicrophoneMuted(true)
TransmitTimerFires ==
    \E held \in BOOLEAN :
        /\ IF held THEN transmitTimer ELSE strayTransmitTimers > 0
        /\ Len(muteCalls) < MaxMuteCalls
        /\ Commit(setMicrophoneMuted(
                      IF held THEN [Cur({}) EXCEPT !.transmitTimer = FALSE]
                      ELSE [Cur({}) EXCEPT !.strayTransmitTimers = @ - 1],
                      TRUE),
                  "transmitTimerFired")

\* the coordinator with or without push-to-talk, on a device with or without a
\* microphone track
InitMute ==
    /\ InitCoreIn(InitRoomState)
    /\ otherCalls = <<>>
    /\ isPtt \in BOOLEAN
    /\ audioTracks \in BOOLEAN
    /\ volumes = Silence
    /\ dirA = LocalSlot
    /\ dirB = LocalSlot
    /\ dirRes = NotEvaluated

NextMute ==
    \/ Enter
    \/ CaptureResolves
    \/ Leave
    \/ IncomingGroupCall
    \/ SetMicrophoneMuted
    \/ AudioDeviceChecked
    \/ UpdatesSent
    \/ TransmitTimerFires
    \/ Observe

SpecMute == InitMute /\ [][NextMute]_vars

-----------------------------------------------------------------------------
(* The lifecycle on its own: the operations of the application and the        *)
(* completions of media capture                                               *)

NextLifecycle ==
    \/ InitLocalCallFeed
    \/ Enter
    \/ CaptureResolves
    \/ CaptureRejects
    \/ Leave
    \/ Terminate
    \/ SetEnteredViaAnotherSession
    \/ Observe

SpecLifecycle == Init /\ [][NextLifecycle]_vars

-----------------------------------------------------------------------------
(* The directionality rule on its own: two devices, each evaluating           *)
(* wantsOutgoingCall on the other                                             *)

DirSlots == Users \X Devices

InitDirection ==
    /\ InitCore
    /\ dirA \in DirSlots
    /\ dirB \in DirSlots
    /\ dirRes = NotEvaluated

\* device dirA evaluates wantsOutgoingCall(dirB) and device dirB wantsOutgoingCall(dirA)
EvaluateDirection ==
    /\ ~dirRes.done
    /\ dirRes' = [done |-> TRUE,
                  ab |-> wantsOutgoingCallAs(dirA[1], dirA[2], dirB[1], dirB[2]),
                  ba |-> wantsOutgoingCallAs(dirB[1], dirB[2], dirA[1], dirA[2])]
    /\ UNCHANGED <<coreVars, dirA, dirB>>

NextDirection == EvaluateDirection

SpecDirection == InitDirection /\ [][NextDirection]_vars

-----------------------------------------------------------------------------
(* Properties *)

\* (userId, deviceId) pair a is below pair b: string order on userId, then deviceId
PairLess(a, b) == StrLess(a[1], b[1]) \/ (a[1] = b[1] /\ StrLess(a[2], b[2]))

\* C1: for two distinct (userId, deviceId) pairs exactly one of the two devices
\* wants the outgoing call, namely the lower one in the order on userId, then
\* deviceId; a device never wants a call to itself
C1_Directionality ==
    dirRes.done =>
        /\ dirA # dirB => (dirRes.ab # dirRes.ba)
        /\ dirA = dirB => (~dirRes.ab /\ ~dirRes.ba)
        /\ dirRes.ab <=> PairLess(dirA, dirB)
        /\ dirRes.ba <=> PairLess(dirB, dirA)

\* two devices of one user have been evaluated, and the lower device calls
C1_Witness ==
    /\ dirRes.done
    /\ dirA[1] = dirB[1] /\ dirA[2] # dirB[2]
    /\ dirRes.ab /\ ~dirRes.ba

-----------------------------------------------------------------------------

\* the (member, device) slot a call object is addressed to or comes from
SlotOf(c) == <<callObjs[c].userId, callObjs[c].deviceId>>

\* the slots of the participant view that lie above the local device in the order
\* of the directionality rule
ResponsibleSlots == {s \in DOMAIN participants : PairLess(LocalSlot, s)}

\* an incoming call that passes every check of the admission, for a new call object
PassesChecks(inc) ==
    /\ inc.roomOk
    /\ inc.state = "ringing"
    /\ inc.groupCallId = GroupCallId
    /\ inc.hasOpponent

\* C2: every call constructed by createNewMatrixCall, every call placed and every
\* outbound call the coordinator holds is addressed to a (userId, deviceId) strictly
\* above the local one; an incoming call from a slot that is not above the local one
\* is admitted when it passes the checks of the admission
C2_OutboundOnlyUpwards ==
    /\ \A e \in obs.created :
          PairLess(LocalSlot, <<e.opts.invitee, e.opts.opponentDeviceId>>)
    /\ \A p \in obs.placed : PairLess(LocalSlot, SlotOf(p.call))
    /\ \A c \in CallIds : callObjs[c].dir = "out" => PairLess(LocalSlot, SlotOf(c))
    /\ \A i \in DOMAIN obs.incoming :
          (/\ ~PairLess(LocalSlot, obs.incoming[i].call.slot)
           /\ PassesChecks(obs.incoming[i].call)
           /\ obs.incoming[i].call.call = 0)
          => obs.incoming[i].outcome = "admitted"

\* the lower participant and the local device are in the view, a call to the
\* higher participant is held, and an incoming call of the lower one is admitted
C2_Witness ==
    /\ lastOp = "onIncomingCall"
    /\ <<UserA, Dev1>> \in DOMAIN participants
    /\ LocalSlot \in DOMAIN participants
    /\ \E c \in CallIds : callObjs[c].dir = "out" /\ SlotOf(c) = <<UserC, Dev1>>
    /\ \E i \in DOMAIN obs.incoming :
          /\ obs.incoming[i].call.slot = <<UserA, Dev1>>
          /\ obs.incoming[i].outcome = "admitted"
    /\ <<UserA, Dev1>> \in GraphSlots(calls)
    /\ callObjs[calls[UserA][Dev1]].dir = "in"

-----------------------------------------------------------------------------

\* C3: once the lifecycle state is Ended, no step changes it to another value
C3_EndedIsTerminal == [][state = Ended => state' = Ended]_vars

-----------------------------------------------------------------------------

\* a completion of media capture, for an initLocalCallFeed that leave() overtook
LeftCaptureCompleted == obs.capture = "left"

\* C4: when media capture completes for an initLocalCallFeed during which leave()
\* ran, the operation fails with the disposed error, the feed is neither set as
\* localCallFeed nor added to userMediaFeeds, and the state is not changed: it
\* stays Uninitialized unless another operation has moved it since
C4_LeaveDuringCapture ==
    [][LeftCaptureCompleted' =>
          /\ obs'.error = "Group call disposed"
          /\ localCallFeed' = localCallFeed
          /\ userMediaFeeds' = userMediaFeeds
          /\ state' = state
          /\ obs'.stateChanged = 0]_vars

\* capture completed after leave(): the state is Uninitialized, no feed is held
C4_Witness ==
    /\ LeftCaptureCompleted
    /\ obs.error = "Group call disposed"
    /\ state = Uninitialized
    /\ ~localCallFeed
    /\ userMediaFeeds = <<>>

-----------------------------------------------------------------------------

\* createNewMatrixCall was invoked for slot s with the advertised session and the
\* group call id, and the call it returned was placed with clones of the local feeds
ConstructedAndPlaced(s) ==
    \E e \in obs.created :
        /\ e.opts = [invitee |-> s[1], opponentDeviceId |-> s[2],
                     opponentSessionId |-> participants[s].sessionId,
                     groupCallId |-> GroupCallId]
        /\ e.call # 0 =>
              \E p \in obs.placed :
                  /\ p.call = e.call
                  /\ p.feeds = (IF localCallFeed THEN <<"m.usermedia">> ELSE <<>>)

\* C5: when enter() has completed, a call has been constructed and placed for every
\* slot of the participant view the local side is responsible for
C5_EnterPlacesCalls ==
    (lastOp = "enter" /\ obs.error = None /\ state = Entered)
        => \A s \in ResponsibleSlots : ConstructedAndPlaced(s)

\* the same, for a coordinator that was not marked as entered via another session
C5_EnterPlacesCallsFirstSession ==
    (lastOp = "enter" /\ obs.error = None /\ state = Entered
        /\ ~enteredViaAnotherSession)
        => \A s \in ResponsibleSlots : ConstructedAndPlaced(s)

-----------------------------------------------------------------------------

\* createNewMatrixCall was invoked for slot s and returned no call
ConstructionFailed(s) ==
    \E e \in obs.created :
        e.opts.invitee = s[1] /\ e.opts.opponentDeviceId = s[2] /\ e.call = 0

\* C6: after every placement pass run while Entered, every slot of the view the local
\* side is responsible for holds a call to the advertised session, or it is absent
\* and call construction returned no call for it
C6_PassReconciles ==
    \A i \in DOMAIN obs.passes :
        obs.passes[i].state = Entered =>
            \A s \in ResponsibleSlots :
                \/ /\ s \in DOMAIN obs.passes[i].sessions
                   /\ obs.passes[i].sessions[s] = participants[s].sessionId
                \/ /\ s \notin DOMAIN obs.passes[i].sessions
                   /\ ConstructionFailed(s)

\* a pass has run while Entered and left a call to the advertised session in the slot
C6_Witness ==
    /\ obs.passes # <<>>
    /\ obs.passes[1].state = Entered
    /\ <<UserC, Dev1>> \in ResponsibleSlots
    /\ <<UserC, Dev1>> \in DOMAIN obs.passes[1].sessions
    /\ obs.passes[1].sessions[<<UserC, Dev1>>] = participants[<<UserC, Dev1>>].sessionId

-----------------------------------------------------------------------------

\* the coordinator is entered and the view holds slot s, which it is responsible for
Wanting(s) == state = Entered /\ s \in DOMAIN participants /\ PairLess(LocalSlot, s)

\* the graph holds a call for slot s whose session is the advertised one
Served(s) ==
    /\ s \in DOMAIN participants
    /\ s \in GraphSlots(calls)
    /\ callObjs[calls[s[1]][s[2]]].sessionId = participants[s].sessionId

\* the retry loop has given slot s up
GivenUp(s) == Retries(retryCallCounts, s[1], s[2]) >= MaxRetries

-----------------------------------------------------------------------------

\* the call that occupies slot s of the graph, 0 if the slot is empty
Occupant(s) == IF s \in GraphSlots(calls) THEN calls[s[1]][s[2]] ELSE 0

\* a step that runs a placement pass while the view advertises, for the responsible
\* slot s, another session than the one of the call that occupies s
SessionChanged(s) ==
    /\ obs'.passes # <<>>
    /\ s \in DOMAIN participants'
    /\ PairLess(LocalSlot, s)
    /\ Occupant(s) # 0
    /\ callObjs[Occupant(s)].sessionId # participants'[s].sessionId

\* the options createNewMatrixCall gets for slot s after the step
NewOpts(s) ==
    [invitee |-> s[1], opponentDeviceId |-> s[2],
     opponentSessionId |-> participants'[s].sessionId, groupCallId |-> GroupCallId]

\* the step constructed call c for slot s, placed it and left it in the slot
NewCallPlaced(s, c) ==
    /\ c # 0
    /\ \E p \in obs'.placed : p.call = c /\ p.feeds = <<"m.usermedia">>
    /\ s \in GraphSlots(calls')
    /\ calls'[s[1]][s[2]] = c
    /\ callObjs'[c].sessionId = participants'[s].sessionId
    /\ c # Occupant(s)

\* C8 as stated: the pass disposes the old call with reason NewSession, constructs and
\* places a new call to the new session in the same slot, and emits one CallsChanged
C8_SessionReplacement ==
    [][\A s \in Users \X Devices :
          SessionChanged(s) =>
              /\ <<Occupant(s), "new_session">> \in obs'.disposed
              /\ \E e \in obs'.created : e.opts = NewOpts(s) /\ NewCallPlaced(s, e.call)
              /\ obs'.passes[1].emitted = 1]_vars

\* C8: the pass disposes the old call with reason NewSession, invokes
\* createNewMatrixCall for the new session and emits one CallsChanged; the call
\* returned is placed and occupies the slot, and if none is returned the slot is
\* left empty
C8_SessionReplacementIfConstructed ==
    [][\A s \in Users \X Devices :
          SessionChanged(s) =>
              /\ <<Occupant(s), "new_session">> \in obs'.disposed
              /\ \E e \in obs'.created :
                    /\ e.opts = NewOpts(s)
                    /\ \/ NewCallPlaced(s, e.call)
                       \/ e.call = 0 /\ s \notin GraphSlots(calls')
              /\ obs'.passes[1].emitted = 1]_vars

\* a pass has disposed a call with reason NewSession and put a call to the newly
\* advertised session into its slot
C8_Witness ==
    /\ obs.passes # <<>>
    /\ \E c \in CallIds : <<c, "new_session">> \in obs.disposed
    /\ \E e \in obs.created :
          /\ e.call # 0
          /\ e.call = Occupant(<<e.opts.invitee, e.opts.opponentDeviceId>>)
          /\ \E p \in obs.placed : p.call = e.call
          /\ e.opts.opponentSessionId =
                participants[<<e.opts.invitee, e.opts.opponentDeviceId>>].sessionId
    /\ obs.passes[1].emitted = 1

-----------------------------------------------------------------------------

\* C9: a placement pass emits CallsChanged once if the graph after the pass differs
\* from the graph before it, and not at all if the two are equal
C9_EmitsIffGraphChanged ==
    \A i \in DOMAIN obs.passes :
        obs.passes[i].emitted = (IF obs.passes[i].graphChanged THEN 1 ELSE 0)

\* one half of it: a pass that changed the graph emitted once, and no pass emits twice
C9_ChangedGraphEmitsOnce ==
    \A i \in DOMAIN obs.passes :
        /\ obs.passes[i].emitted \in {0, 1}
        /\ obs.passes[i].graphChanged => obs.passes[i].emitted = 1

-----------------------------------------------------------------------------

\* the incoming call of an onIncomingCall step passes all five checks
Admissible(inc) ==
    /\ PassesChecks(inc)
    /\ ~(Occupant(inc.slot) # 0 /\ Occupant(inc.slot) = inc.call)

\* what the admission of inc as call object c leaves behind
Admitted(inc, c) ==
    /\ inc.call # 0 => c = inc.call
    /\ inc.slot \in GraphSlots(calls')
    /\ calls'[inc.slot[1]][inc.slot[2]] = c
    /\ callHandlers'[inc.slot[1]][inc.slot[2]] = c
    /\ callObjs'[c].listeners = AllListeners
    /\ obs'.answered = {[call |-> c, feeds |-> <<"m.usermedia">>]}
    /\ obs'.callsChanged = 1
    /\ callObjs'[c].localFeeds = <<"m.usermedia">>
    /\ Occupant(inc.slot) # 0 => obs'.disposed = {<<Occupant(inc.slot), "replaced">>}
    /\ Occupant(inc.slot) = 0 => obs'.disposed = {}
    /\ ~obs'.rejected

\* what a call that is not admitted leaves behind
Ignored(inc) ==
    /\ calls' = calls
    /\ callHandlers' = callHandlers
    /\ obs'.callsChanged = 0
    /\ obs'.answered = {}
    /\ obs'.disposed = {}
    /\ obs'.rejected =>
          (inc.groupCallId # GroupCallId /\ inc.roomOk /\ inc.state = "ringing")

\* C10: an incoming call is registered, answered with clones of the local feeds,
\* inserted into its slot and announced by one CallsChanged iff it passes the five
\* checks, a different previous occupant being disposed with reason Replaced;
\* otherwise graph and handler table are unchanged, no CallsChanged is emitted and
\* reject() is called only for a groupCallId mismatch
C10_IncomingAdmission ==
    [][lastOp' = "onIncomingCall" =>
          /\ Len(obs'.incoming) = 1
          /\ (obs'.incoming[1].outcome = "admitted") <=> Admissible(obs'.incoming[1].call)
          /\ Admissible(obs'.incoming[1].call) =>
                \E c \in CallIds : Admitted(obs'.incoming[1].call, c)
          /\ ~Admissible(obs'.incoming[1].call) => Ignored(obs'.incoming[1].call)]_vars

\* an admitted incoming call has taken the slot of a different call, which was
\* disposed with reason Replaced
C10_Witness ==
    /\ lastOp = "onIncomingCall"
    /\ obs.incoming[1].outcome = "admitted"
    /\ obs.callsChanged = 1
    /\ \E c \in CallIds :
          /\ obs.disposed = {<<c, "replaced">>}
          /\ c # Occupant(obs.incoming[1].call.slot)
    /\ \E a \in obs.answered : a.call = Occupant(obs.incoming[1].call.slot)

-----------------------------------------------------------------------------

\* the (userId, key) pairs of the call handler table
HandlerSlots(h) == {s \in Users \X (Users \cup Devices) : s[1] \in DOMAIN h /\ s[2] \in DOMAIN h[s[1]]}

\* the handlers that make up the steps of the reconciler
ReconcilerOps ==
    {"enter", "onRoomState", "setEnteredViaAnotherSession", "onRetryCallLoop",
     "placeCallFailed", "onIncomingCall", "onCallHangup", "leave"}

\* C11: after every completed step of the reconciler the handler table has the
\* (userId, deviceId) keys of the call graph, no more and no less
C11_HandlerKeysAreGraphKeys ==
    lastOp \in ReconcilerOps => HandlerSlots(callHandlers) = GraphSlots(calls)

\* one half of it: every slot of the graph has an entry in the handler table
C11_GraphKeysHaveHandlers ==
    lastOp \in ReconcilerOps => GraphSlots(calls) \subseteq HandlerSlots(callHandlers)

-----------------------------------------------------------------------------

\* C12: between callbacks no member key of the call graph maps to an empty device map
C12_NoEmptyDeviceMap ==
    \A member \in DOMAIN calls : DOMAIN calls[member] # {}

-----------------------------------------------------------------------------

\* the retry count of slot s in the retry table counts
RetriesOf(counts, s) == Retries(counts, s[1], s[2])

\* every retry count lies in 0..MaxRetries
CountsInRange(counts) ==
    \A s \in Users \X Devices : RetriesOf(counts, s) \in 0..MaxRetries

\* C13: every per-slot retry count lies in 0..3, and a retry tick changes a count
\* only by raising a count below 3 by one
C13_RetryCountsCapped ==
    [][/\ CountsInRange(retryCallCounts)
       /\ CountsInRange(retryCallCounts')
       /\ lastOp' = "onRetryCallLoop" =>
             \A s \in Users \X Devices :
                 RetriesOf(retryCallCounts', s) # RetriesOf(retryCallCounts, s) =>
                     /\ RetriesOf(retryCallCounts, s) < MaxRetries
                     /\ RetriesOf(retryCallCounts', s) = RetriesOf(retryCallCounts, s) + 1]_vars

\* after a retry tick that ran a pass one slot is at the cap and the other holds a
\* count below it
C13_Witness ==
    /\ lastOp = "onRetryCallLoop"
    /\ obs.passes # <<>>
    /\ \E s, t \in WantedSlots :
          /\ RetriesOf(retryCallCounts, s) = MaxRetries
          /\ RetriesOf(retryCallCounts, t) \in 1..(MaxRetries - 1)

-----------------------------------------------------------------------------

\* C14: a retry tick never has createNewMatrixCall invoked for a slot whose retry
\* count has already reached 3, whatever the counts of the other slots are
C14_NoAttemptBeyondCap ==
    [][lastOp' = "onRetryCallLoop" =>
          \A s \in Users \X Devices :
              RetriesOf(retryCallCounts, s) >= MaxRetries =>
                  ~\E e \in obs'.created :
                      e.opts.invitee = s[1] /\ e.opts.opponentDeviceId = s[2]]_vars

\* the same when every slot that lacks a call is at the cap: the tick runs no pass
C14_NoAttemptWhenAllAtCap ==
    [][(/\ lastOp' = "onRetryCallLoop"
        /\ \A s \in WantedSlots :
              Served(s) \/ RetriesOf(retryCallCounts, s) >= MaxRetries)
          => obs'.created = {} /\ obs'.passes = <<>>]_vars

-----------------------------------------------------------------------------

\* the call that reports Connected in this step, registered with the coordinator
Connects(c) ==
    /\ lastOp' = "onCallStateChanged"
    /\ callObjs[c].alive
    /\ callObjs[c].state # "connected"
    /\ callObjs'[c].state = "connected"
    /\ "state" \in callObjs[c].listeners

\* C15: when a registered call reports Connected the retry count of its slot reads 0
\* afterwards and the retry counts of the other slots are unchanged
C15_ConnectedClearsCount ==
    [][\A c \in CallIds :
          Connects(c) =>
              /\ RetriesOf(retryCallCounts', SlotOf(c)) = 0
              /\ \A s \in (Users \X Devices) \ {SlotOf(c)} :
                    RetriesOf(retryCallCounts', s) = RetriesOf(retryCallCounts, s)
              /\ \A member \in DOMAIN retryCallCounts' :
                    DOMAIN retryCallCounts'[member] # {}]_vars

\* a call placed by the retry loop has connected: its slot reads 0 while the other
\* slot keeps its count
C15_Witness ==
    /\ lastOp = "onCallStateChanged"
    /\ \E c \in CallIds :
          /\ callObjs[c].state = "connected"
          /\ callObjs[c].dir = "out"
          /\ "state" \in callObjs[c].listeners
          /\ RetriesOf(retryCallCounts, SlotOf(c)) = 0
          /\ \E s \in WantedSlots \ {SlotOf(c)} : RetriesOf(retryCallCounts, s) > 0

-----------------------------------------------------------------------------

\* the timers of the coordinator that the model holds: none is pending
NoTimerPending ==
    /\ ~retryCallLoopInterval
    /\ participantsExpirationTimer = NoTimer
    /\ ~resendMemberStateTimer

\* the handlers that are timer callbacks
TimerOps == {"onRetryCallLoop", "resendMemberState"}

\* C16: after a transition out of Entered no timer of the coordinator is pending, and
\* no timer callback runs while the call is not entered
C16_TimersCancelledOnExit ==
    [][/\ (state = Entered /\ state' # Entered) => NoTimerPending'
       /\ (state # Entered /\ state' # Entered) => lastOp' \notin TimerOps]_vars

\* the part of it about the retry interval
C16_RetryIntervalCancelled == state # Entered => ~retryCallLoopInterval

\* the part of it about the resend interval
C16_ResendTimerCancelled == state # Entered => ~resendMemberStateTimer

-----------------------------------------------------------------------------

\* the device lists a member-state write carries for this group call
WrittenLists(wr) ==
    {wr.calls[i].devices : i \in {k \in DOMAIN wr.calls : wr.calls[k].call_id = GroupCallId}}

HasDevice(devices, deviceId) == \E j \in DOMAIN devices : devices[j].device_id = deviceId

\* a write of the local user's member state that is marked keepAlive and does not
\* carry the local device for this call
IsRemoval(wr) ==
    /\ wr.stateKey = LocalUserId
    /\ wr.keepAlive
    /\ \A devices \in WrittenLists(wr) : ~HasDevice(devices, LocalDeviceId)

LeavesEntered == state = Entered /\ state' # Entered

\* C17: every transition out of Entered issues a write of the local user's member
\* state that is marked keepAlive and whose entry for this call is without the local device
C17_ExitPublishesRemoval ==
    [][LeavesEntered => \E i \in DOMAIN obs'.writes : IsRemoval(obs'.writes[i])]_vars

\* leave() has removed the local device, advertised until then, beside another device
C17_Witness ==
    /\ lastOp = "leave"
    /\ roomState[LocalSlot].present
    /\ \E i \in DOMAIN obs.writes :
          /\ IsRemoval(obs.writes[i])
          /\ \E devices \in WrittenLists(obs.writes[i]) : HasDevice(devices, Dev21)

-----------------------------------------------------------------------------

\* the mutations of the last handler that returned a device list
Applied == {i \in DOMAIN obs.mutations : ~obs.mutations[i].result.skip}

\* the write carries the stored entries of the other calls as they are, and the
\* entry of this call, with the new devices, iff there are new devices
Reassembled(wr, stored) ==
    /\ \A k \in DOMAIN stored :
          stored[k].call_id # GroupCallId => \E j \in DOMAIN wr.calls : wr.calls[j] = stored[k]
    /\ WrittenLists(wr) = IF Len(wr.newDevices) > 0 THEN {wr.newDevices} ELSE {}

\* C18: a write of the publisher keeps the stored entries of the other calls unchanged
\* and has an entry for this call iff the new device list is not empty; a mutation
\* that returns null issues no write
C18_WriteReassembled ==
    /\ \A i \in DOMAIN obs.writes : Reassembled(obs.writes[i], storedCalls(Cur({})))
    /\ Len(obs.writes) = Cardinality(Applied)

\* the local device, the only one stored for this call, has been removed: the write
\* carries the entry of the other call and none for this call
C18_Witness ==
    /\ lastOp = "leave"
    /\ otherCalls # <<>>
    /\ Len(storedCalls(Cur({}))) > Len(otherCalls)
    /\ \E i \in DOMAIN obs.writes :
          /\ obs.writes[i].calls = otherCalls
          /\ obs.writes[i].newDevices = <<>>

\* cleanMemberState has returned null, and nothing has been written
C18_WitnessSkipped ==
    /\ lastOp = "cleanMemberState"
    /\ obs.mutations # <<>>
    /\ Applied = {}
    /\ obs.writes = <<>>

-----------------------------------------------------------------------------

\* the handlers that publish the local device: updateMemberState when the call is
\* entered, and the resend interval
PublishingOps == {"enter", "resendMemberState"}

LocalEntries(devices) == {j \in DOMAIN devices : devices[j].device_id = LocalDeviceId}

\* the entry of the local device as the claim states it, from the coordinator's state
IsFreshLocalEntry(d) ==
    /\ d.session_id = LocalSessionId
    /\ d.expires_ts = now + 3600000
    /\ d.feeds = IF localCallFeed THEN <<LocalFeed.purpose>> ELSE <<>>

\* the stored entries of the other devices that are well formed and not expired
OtherValidStored ==
    {d \in {DeviceEntry(Cur({}), <<LocalUserId, dev>>) :
                 dev \in {x \in LocalUserDevices : roomState[<<LocalUserId, x>>].present}} :
        d.device_id # LocalDeviceId /\ d.wellFormed /\ d.expires_ts > now}

Published(devices) ==
    /\ Cardinality(LocalEntries(devices)) = 1
    /\ \A j \in LocalEntries(devices) : IsFreshLocalEntry(devices[j])
    /\ \A d \in OtherValidStored : \E j \in DOMAIN devices : devices[j] = d

\* C19: publishing the local device writes a device list with exactly one entry of the
\* local device, with the current session id, expires_ts = now + 3600000 and a feed
\* record per local feed, and with every other valid stored entry unchanged
C19_PublishesLocalDevice ==
    lastOp \in PublishingOps =>
        /\ \A i \in DOMAIN obs.writes :
              /\ Published(obs.writes[i].newDevices)
              /\ WrittenLists(obs.writes[i]) = {obs.writes[i].newDevices}
        /\ (state = Entered /\ obs.error = None) => obs.writes # <<>>

\* the local device was advertised with another session, beside another device of the
\* local user, and has been published again
C19_Witness ==
    /\ lastOp \in PublishingOps
    /\ roomState[LocalSlot].present /\ roomState[LocalSlot].expires_ts > now
    /\ OtherValidStored # {}
    /\ \E i \in DOMAIN obs.writes : Published(obs.writes[i].newDevices)

-----------------------------------------------------------------------------

\* the stored entries of the local user that updateDevices hands to the filter of
\* cleanMemberState
CleanInput ==
    {d \in {DeviceEntry(Cur({}), <<LocalUserId, dev>>) :
                 dev \in {x \in LocalUserDevices : roomState[<<LocalUserId, x>>].present}} :
        d.wellFormed /\ d.expires_ts > now}

\* the filter of cleanMemberState drops the entry: the device was not reported as
\* seen, or it is the local device and the call is not entered, here or elsewhere
DroppedByClean(d) ==
    \/ d.device_id \notin obs.seen
    \/ d.device_id = LocalDeviceId /\ state # Entered /\ ~enteredViaAnotherSession

\* C20: cleanMemberState issues no write iff its filter removes no device from the
\* device list it is given
C20_CleanWritesIffChanged ==
    lastOp = "cleanMemberState" =>
        (obs.writes = <<>> <=> \A d \in CleanInput : ~DroppedByClean(d))

\* cleanMemberState has dropped the local device of a call that is not entered and
\* kept the other device: one write
C20_Witness ==
    /\ lastOp = "cleanMemberState"
    /\ Cardinality(CleanInput) = 2
    /\ \E d \in CleanInput : DroppedByClean(d)
    /\ \E d \in CleanInput : ~DroppedByClean(d)
    /\ Len(obs.writes) = 1

\* cleanMemberState has found nothing to drop among the devices: no write
C20_WitnessUnchanged ==
    /\ lastOp = "cleanMemberState"
    /\ CleanInput # {}
    /\ \A d \in CleanInput : ~DroppedByClean(d)
    /\ obs.writes = <<>>

-----------------------------------------------------------------------------

\* the m.devices of the local user's entry for this call once the last handler's
\* writes are stored: the list of the last write, or what was stored
StoredAfter ==
    IF obs.writes = <<>> THEN storedDevices(Cur({}))
    ELSE obs.writes[Len(obs.writes)].newDevices

\* an entry updateDevices counts as inactive: not well formed, or expired
Inactive(d) == ~d.wellFormed \/ d.expires_ts <= now

\* C21: after cleanMemberState the stored devices of this call hold no device that
\* getDevices() did not report, no inactive device and not the local device of a call
\* entered neither here nor elsewhere; every other stored device is kept
C21_CleanedListIsClean ==
    (lastOp = "cleanMemberState" /\ obs.error = None) =>
        /\ \A j \in DOMAIN StoredAfter :
              ~Inactive(StoredAfter[j]) /\ ~DroppedByClean(StoredAfter[j])
        /\ \A d \in CleanInput :
              ~DroppedByClean(d) => \E j \in DOMAIN StoredAfter : StoredAfter[j] = d

\* the same for the runs of cleanMemberState that write
C21_WrittenListIsClean ==
    (lastOp = "cleanMemberState" /\ obs.writes # <<>>) =>
        /\ \A j \in DOMAIN StoredAfter :
              ~Inactive(StoredAfter[j]) /\ ~DroppedByClean(StoredAfter[j])
        /\ \A d \in CleanInput :
              ~DroppedByClean(d) => \E j \in DOMAIN StoredAfter : StoredAfter[j] = d

-----------------------------------------------------------------------------

\* the room advertises the device with an expires_ts that has passed
ExpiredAdvert(s) == roomState[s].present /\ roomState[s].expires_ts <= now

\* the expiration timer is due: its callback runs before time moves on
TimerDue == participantsExpirationTimer # NoTimer /\ participantsExpirationTimer <= now

\* the local device in the view of a coordinator that counts as entered
LocalEcho(s) == s = LocalSlot /\ (state = Entered \/ enteredViaAnotherSession)

\* the devices of the view that updateParticipants took from the room state
FromRoom == {s \in DOMAIN participants : roomState[s].present /\ ~ExpiredAdvert(s)}

\* the last handler has run updateParticipants to its end
Recomputed == obs.recomputes > 0 /\ obs.error = None

\* C22: the view holds no device whose advertised expires_ts has passed, the timer
\* callback that is due apart; after a recomputation one timer is set, to the least
\* expires_ts of the devices kept
C22_NoExpiredDevice ==
    /\ \A s \in DOMAIN participants : ExpiredAdvert(s) => TimerDue
    /\ Recomputed =>
          /\ \A s \in DOMAIN participants : ~ExpiredAdvert(s)
          /\ participantsExpirationTimer =
                IF FromRoom = {} THEN NoTimer
                ELSE Min({roomState[s].expires_ts : s \in FromRoom})

\* the same, but for the local device of a coordinator that counts as entered
C22_NoExpiredDeviceButLocalEcho ==
    /\ \A s \in DOMAIN participants : (ExpiredAdvert(s) /\ ~LocalEcho(s)) => TimerDue
    /\ Recomputed =>
          /\ \A s \in DOMAIN participants : ExpiredAdvert(s) => LocalEcho(s)
          /\ participantsExpirationTimer =
                IF FromRoom = {} THEN NoTimer
                ELSE Min({roomState[s].expires_ts : s \in FromRoom})

\* the same while onRoomState is subscribed to the room
C22_NoExpiredDeviceWhileSubscribed ==
    /\ roomListener =>
          \A s \in DOMAIN participants : (ExpiredAdvert(s) /\ ~LocalEcho(s)) => TimerDue
    /\ Recomputed =>
          /\ \A s \in DOMAIN participants : ExpiredAdvert(s) => LocalEcho(s)
          /\ participantsExpirationTimer =
                IF FromRoom = {} THEN NoTimer
                ELSE Min({roomState[s].expires_ts : s \in FromRoom})

-----------------------------------------------------------------------------

ConsideredEntered == state = Entered \/ enteredViaAnotherSession

\* C23: after a recomputation the view holds the local device iff the coordinator
\* counts as entered (in state Entered, or entered via another session)
C23_LocalEchoIffEntered ==
    Recomputed => (LocalSlot \in DOMAIN participants <=> ConsideredEntered)

\* the same for the coordinators that have not ended
C23_LocalEchoIffEnteredUnlessEnded ==
    (Recomputed /\ state # Ended) =>
        (LocalSlot \in DOMAIN participants <=> ConsideredEntered)

\* the room advertises the local device, unexpired, and the view of a coordinator
\* that is not entered has been recomputed without it
C23_Witness ==
    /\ Recomputed
    /\ state = Uninitialized /\ ~enteredViaAnotherSession
    /\ roomState[LocalSlot].present /\ ~ExpiredAdvert(LocalSlot)
    /\ LocalSlot \notin DOMAIN participants
    /\ participants # EmptyMap

-----------------------------------------------------------------------------

\* C24: the view of a coordinator that counts as entered carries the session id of
\* the client for the local device, whatever the room advertises for it
C24_LocalEchoCarriesSession ==
    (ConsideredEntered /\ LocalSlot \in DOMAIN participants) =>
        participants[LocalSlot].sessionId = LocalSessionId

\* the same for the local device that the room does not advertise, or not any more
C24_InsertedEchoCarriesSession ==
    (ConsideredEntered /\ LocalSlot \in DOMAIN participants
       /\ ~(roomState[LocalSlot].present /\ ~ExpiredAdvert(LocalSlot))
       /\ Recomputed) =>
        participants[LocalSlot].sessionId = LocalSessionId

\* the same for the coordinator in state Entered
C24_EnteredEchoCarriesSession ==
    (state = Entered /\ LocalSlot \in DOMAIN participants) =>
        participants[LocalSlot].sessionId = LocalSessionId

-----------------------------------------------------------------------------

\* C25: a handler that recomputes the view once emits ParticipantsChanged once if the
\* view has changed (members, devices, sessionId or screensharing bit), and emits
\* nothing and leaves the view as it was if it has not
C25_EmitsIffViewChanged ==
    [][obs'.recomputes = 1 =>
          /\ participants' # participants => obs'.participantsChanged = 1
          /\ participants' = participants => obs'.participantsChanged = 0]_vars

\* the room has changed the session of a device of the view, and nothing else: one event
C25_Witness ==
    /\ lastOp = "onRoomState"
    /\ obs.recomputes = 1
    /\ obs.participantsChanged = 1
    /\ <<UserA, Dev1>> \in DOMAIN participants
    /\ participants[<<UserA, Dev1>>].sessionId = "s2"

\* the room has renewed a device of the view: a later expires_ts, the same view, no event
C25_WitnessUnchanged ==
    /\ lastOp = "onRoomState"
    /\ obs.recomputes = 1
    /\ obs.participantsChanged = 0
    /\ participantsExpirationTimer = 2
    /\ DOMAIN participants = {<<UserA, Dev1>>}
    /\ participants[<<UserA, Dev1>>].sessionId = "s1"

-----------------------------------------------------------------------------

\* the coordinator as leave() leaves it
Left ==
    /\ state = Uninitialized
    /\ ~localCallFeed
    /\ ~retryCallLoopInterval
    /\ \A i \in DOMAIN captures : captures[i].left /\ captures[i].disposed

\* the observations of a handler, but for its calls on the media handler
Events(o) == [o EXCEPT !.streams = <<>>]

\* the step changes no field of the coordinator and emits no event
NoOp ==
    /\ Events(obs') = NoObs
    /\ UNCHANGED <<state, participants, enteredViaAnotherSession, calls, callHandlers,
                   retryCallCounts, callObjs, localCallFeed, userMediaFeeds,
                   retryCallLoopInterval, incomingListener, captures, roomState, joined,
                   now, participantsExpirationTimer, roomListener, otherCalls,
                   resendMemberStateTimer, awaitingSend, mediaVars>>

\* C26: leave() leaves the coordinator in a state in which a second leave() changes
\* nothing and emits nothing
C26_SecondLeaveIsNoOp ==
    /\ [](lastOp = "leave" => Left)
    /\ [][(Left /\ lastOp' = "leave") => NoOp]_vars

\* leave() has disposed of the calls of an entered coordinator
C26_Witness ==
    /\ lastOp = "leave"
    /\ Left
    /\ obs.stateChanged = 1
    /\ obs.disposed # {}

\* a second leave() has run
C26_WitnessSecond ==
    /\ lastOp = "leave"
    /\ Left
    /\ Events(obs) = NoObs
    /\ participants # EmptyMap

-----------------------------------------------------------------------------

\* the graph g without the slot s, and without the member of s if s was its last slot
WithoutSlot(g, s) ==
    IF DOMAIN g[s[1]] = {s[2]} THEN MapDel(g, s[1])
    ELSE [g EXCEPT ![s[1]] = MapDel(@, s[2])]

\* the step leaves the graph, the handler table, the feeds and every call but c as
\* they are, disposes of no call and emits no CallsChanged
Untouched(c) ==
    /\ calls' = calls
    /\ HandlerSlots(callHandlers') = HandlerSlots(callHandlers)
    /\ userMediaFeeds' = userMediaFeeds
    /\ \A d \in CallIds \ {c} : callObjs'[d] = callObjs[d]
    /\ obs'.disposed = {}
    /\ obs'.callsChanged = 0

\* c is disposed of with the reason it reports, its slot leaves the graph, with the
\* member if it was the last one, and CallsChanged is emitted once
SlotReleased(c, reason) ==
    /\ <<c, reason>> \in obs'.disposed
    /\ callObjs'[c].listeners = {}
    /\ calls' = WithoutSlot(calls, SlotOf(c))
    /\ obs'.callsChanged = 1

C30_WitnessReplaced ==
    /\ lastOp = "onCallHangup"
    /\ obs.hangup.call # 0 /\ obs.hangup.reason = "replaced"
    /\ Occupant(SlotOf(obs.hangup.call)) = obs.hangup.call
    /\ obs.callsChanged = 0

\* no call whose slot another call has taken, or that has no slot, reports a hangup
\* to the coordinator
C30_HangupOnlyFromOccupants ==
    [][\A c \in CallIds :
          (lastOp' = "onCallHangup" /\ obs'.hangup.call = c) => Occupant(SlotOf(c)) = c]_vars

-----------------------------------------------------------------------------
(* Feeds *)

\* no two feeds of a sequence are of the same (userId, deviceId)
UniqueByDevice(feeds) ==
    \A i, j \in DOMAIN feeds :
        feeds[i].userId = feeds[j].userId /\ feeds[i].deviceId = feeds[j].deviceId => i = j

\* C28: in every reachable state, overlapping setScreensharingEnabled(true) calls
\* that both await the screen capture included, userMediaFeeds and
\* screenshareFeeds each hold at most one feed per (userId, deviceId)
C28_FeedsUniquePerDevice ==
    UniqueByDevice(userMediaFeeds) /\ UniqueByDevice(screenshareFeeds)

\* the user-media half of C28 alone
C28_UserMediaFeedsUnique == UniqueByDevice(userMediaFeeds)

\* two invocations of setScreensharingEnabled(true) await their capture
C28_Overlap == shareCaptures = 2 /\ ~localScreenshareFeed

\* C29: in every reachable state, after any sequence of add, replace and remove
\* of user-media feeds and of active-speaker ticks, activeSpeaker is absent or
\* an element of userMediaFeeds
C29_ActiveSpeakerInFeeds ==
    activeSpeaker = NoFeed \/ \E i \in DOMAIN userMediaFeeds : userMediaFeeds[i] = activeSpeaker

\* a tick has made a remote feed the active speaker
C29_SpeakerChosen ==
    /\ lastOp = "onActiveSpeakerLoop"
    /\ activeSpeaker # NoFeed
    /\ activeSpeaker.call # 0

-----------------------------------------------------------------------------
(* Microphone *)

\* the bit a setMicrophoneMuted(true) leaves set
Muted == IF localCallFeed THEN audioMuted ELSE initWithAudioMuted

\* the last handler was a setMicrophoneMuted(true) that ran to its emission
MutedNow == lastOp = "setMicrophoneMuted(true)" /\ obs.error = None

\* C27: every setMicrophoneMuted that returns true has emitted
\* LocalMuteStateChanged exactly once, and at each emission the local feed's bit
\* (the deferred initial bit when there is no local feed) is the requested value;
\* setMicrophoneMuted(true) leaves the bit set, and called again in such a state
\* it leaves the mute state as it is and emits once more
C27_MuteEmitsOnceAfterBit ==
    /\ [](\A i \in DOMAIN obs.returned :
              obs.returned[i].value => obs.returned[i].emitted = 1)
    /\ [](\A i \in DOMAIN obs.muteEvents : obs.muteEvents[i].bit = obs.muteEvents[i].muted)
    /\ [](MutedNow => Muted /\ Len(obs.muteEvents) = 1)
    /\ [][Muted /\ MutedNow' =>
              UNCHANGED <<audioMuted, initWithAudioMuted, transmitTimer>>]_vars

\* an unmute under push-to-talk, which emits after its await, has returned true
C27_Witness ==
    /\ lastOp = "sendUpdates"
    /\ isPtt
    /\ obs.returned = <<[value |-> TRUE, muted |-> FALSE, emitted |-> 1]>>
    /\ obs.muteEvents = <<[muted |-> FALSE, bit |-> FALSE]>>

\* a second setMicrophoneMuted(true) has emitted while the first awaits its updates
C27_WitnessTwice ==
    /\ MutedNow
    /\ Len(muteCalls) = 2
    /\ \A i \in DOMAIN muteCalls :
          muteCalls[i] = [muted |-> TRUE, at |-> "sendUpdatesAfter", emitted |-> 1]

\* a setMicrophoneMuted(true) without a local feed has set the deferred bit
C27_WitnessDeferred ==
    /\ MutedNow
    /\ ~localCallFeed
    /\ initWithAudioMuted
    /\ obs.muteEvents = <<[muted |-> TRUE, bit |-> TRUE]>>

-----------------------------------------------------------------------------
(* Replacement *)

\* the call the graph holds for a slot, 0 for none
CallAt(s) == IF s \in GraphSlots(calls) THEN calls[s[1]][s[2]] ELSE 0

\* C31: when a call the coordinator listens to emits Replaced(newCall), before or
\* after the hangup of the previous call, then after the handler the slot of the
\* previous call holds newCall, the previous call has none of the four listeners,
\* newCall has all four, and exactly one CallsChanged was emitted
C31_ReplaceHandling ==
    lastOp = "onCallReplaced" =>
        /\ obs.error = None
        /\ CallAt(obs.replaced.slot) = obs.replaced.newCall
        /\ obs.replaced.prevListeners = {}
        /\ callObjs[obs.replaced.newCall].listeners = AllListeners
        /\ obs.callsChanged = 1

\* the same while no call without an opponent member has been replaced
C31_ReplaceHandlingOfKnownMember ==
    lastOp = "onCallReplaced" /\ NoMember \notin DOMAIN calls =>
        /\ obs.error = None
        /\ CallAt(obs.replaced.slot) = obs.replaced.newCall
        /\ obs.replaced.prevListeners = {}
        /\ callObjs[obs.replaced.newCall].listeners = AllListeners
        /\ obs.callsChanged = 1

\* a call was replaced before its hangup
C31_Witness ==
    /\ lastOp = "onCallReplaced"
    /\ obs.replaced.member # NoMember
    /\ obs.replaced.prevState # "ended"
    /\ CallAt(obs.replaced.slot) = obs.replaced.newCall

\* a call that had reported its hangup with reason Replaced was replaced then
C31_WitnessHangupFirst ==
    /\ lastOp = "onCallReplaced"
    /\ obs.replaced.member # NoMember
    /\ obs.replaced.prevState = "ended"
    /\ CallAt(obs.replaced.slot) = obs.replaced.newCall

-----------------------------------------------------------------------------
(* Late placement failures *)

\* the step is the failure callback of the placement of call c
PlacementFails(c) ==
    /\ lastOp' = "placeCallFailed"
    /\ callObjs[c].pending
    /\ ~callObjs'[c].pending

\* another call than c holds the slot c was placed for
Overwritten(c) == Occupant(SlotOf(c)) \notin {0, c}

\* the feeds of a registry that stem from call o
FeedsOf(feeds, o) == {feeds[i] : i \in {j \in DOMAIN feeds : feeds[j].call = o}}

\* the step leaves the graph as it is
GraphKept == calls' = calls

\* the step leaves the listeners of call o as they are
ListenersKept(o) == callObjs'[o].listeners = callObjs[o].listeners

\* the step leaves the remote feeds of call o in the registries
FeedsKept(o) ==
    /\ FeedsOf(userMediaFeeds', o) = FeedsOf(userMediaFeeds, o)
    /\ FeedsOf(screenshareFeeds', o) = FeedsOf(screenshareFeeds, o)

\* C32: when the placement of a call fails after another call has taken its slot,
\* the failure handler leaves the graph, the occupant's listeners and the occupant's
\* remote feeds as they are; it changes the graph only if the slot holds the failed
\* call
C32_FailureSparesOccupant ==
    [][\A c \in CallIds :
          PlacementFails(c) =>
              /\ Overwritten(c) => /\ GraphKept
                                   /\ ListenersKept(Occupant(SlotOf(c)))
                                   /\ FeedsKept(Occupant(SlotOf(c)))
              /\ ~GraphKept => Occupant(SlotOf(c)) = c]_vars

\* the graph and listener part of C32
C32_FailureKeepsOccupantInGraph ==
    [][\A c \in CallIds :
          PlacementFails(c) =>
              /\ Overwritten(c) => GraphKept /\ ListenersKept(Occupant(SlotOf(c)))
              /\ ~GraphKept => Occupant(SlotOf(c)) = c]_vars

\* C32 for the failed calls that were hung up with reason Replaced
C32_FailureOfReplacedSparesOccupant ==
    [][\A c \in CallIds :
          PlacementFails(c) /\ Overwritten(c) /\ callObjs[c].hangupReason = "replaced" =>
              FeedsKept(Occupant(SlotOf(c)))]_vars

-----------------------------------------------------------------------------
(* Placement passes over calls in flight *)

\* call c is an outgoing call that holds its slot and whose placement is unsettled
InFlight(c) ==
    /\ callObjs[c].alive
    /\ callObjs[c].dir = "out"
    /\ callObjs[c].pending
    /\ Occupant(SlotOf(c)) = c

\* the view the step leaves advertises the session call c was placed for
StillAdvertised(c) ==
    /\ SlotOf(c) \in DOMAIN participants'
    /\ participants'[SlotOf(c)].sessionId = callObjs[c].sessionId

\* the step runs the retry loop or a placement pass
PassRuns == lastOp' = "onRetryCallLoop" \/ obs'.passes # <<>>

\* the step constructs no call for the slot of c, disposes of c not, and leaves c in
\* its slot
LeftInFlight(c) ==
    /\ \A x \in obs'.created :
           <<x.opts.invitee, x.opts.opponentDeviceId>> # SlotOf(c)
    /\ \A d \in obs'.disposed : d[1] # c
    /\ SlotOf(c) \in GraphSlots(calls')
    /\ calls'[SlotOf(c)[1]][SlotOf(c)[2]] = c
    /\ callObjs'[c].pending

\* the step leaves the retry count of the slot of c as it is
RetryCountKept(c) ==
    Retries(retryCallCounts', SlotOf(c)[1], SlotOf(c)[2])
        = Retries(retryCallCounts, SlotOf(c)[1], SlotOf(c)[2])

\* C33: while an outgoing call holds its slot with the advertised session and its
\* placement is unsettled, a retry tick or a placement pass constructs no call for
\* the slot and does not dispose of the call, and the retry tick does not raise
\* the retry count of the slot
C33_PlacementIdempotentInFlight ==
    [][\A c \in CallIds :
          InFlight(c) /\ StillAdvertised(c) /\ PassRuns =>
              /\ LeftInFlight(c)
              /\ lastOp' = "onRetryCallLoop" => RetryCountKept(c)]_vars

\* a retry tick has run a placement pass for another slot while a call was in flight
C33_Witness ==
    /\ lastOp = "onRetryCallLoop"
    /\ obs.passes # <<>>
    /\ \E c \in CallIds :
          /\ InFlight(c)
          /\ SlotOf(c) \in DOMAIN participants
          /\ participants[SlotOf(c)].sessionId = callObjs[c].sessionId
          /\ \A x \in obs.created : x.call # c

\* a ParticipantsChanged has run a placement pass while a call was in flight
C33_WitnessParticipantsChanged ==
    /\ lastOp = "onRoomState"
    /\ obs.passes # <<>>
    /\ obs.participantsChanged > 0
    /\ \E c \in CallIds :
          /\ InFlight(c)
          /\ SlotOf(c) \in DOMAIN participants
          /\ participants[SlotOf(c)].sessionId = callObjs[c].sessionId
          /\ \A x \in obs.created : x.call # c

-----------------------------------------------------------------------------
(* Membership refresh *)

\* a write of the local user's member state that carries the local device for this
\* call
Publishes(wr) ==
    /\ wr.stateKey = LocalUserId
    /\ \E devices \in WrittenLists(wr) : HasDevice(devices, LocalDeviceId)

\* C34: the membership-refresh timer is pending only while the state is Entered,
\* and no handler that ends in another state has issued a write that publishes the
\* local device
C34_RefreshOnlyWhileEntered ==
    /\ resendMemberStateTimer => state = Entered
    /\ state # Entered => \A i \in DOMAIN obs.writes : ~Publishes(obs.writes[i])

\* the timer part of C34 for the handlers themselves: none but the completion of a
\* write arms the timer, and updateMemberState leaves it cleared outside Entered
C34_OnlyCompletionArms ==
    [][~resendMemberStateTimer /\ resendMemberStateTimer' => lastOp' = "memberStateSent"]_vars

\* the refresh interval has fired and published the local device after a leave
C34_PublishedAfterLeave ==
    /\ lastOp = "resendMemberState"
    /\ state # Entered
    /\ \E i \in DOMAIN obs.writes : Publishes(obs.writes[i])

-----------------------------------------------------------------------------
(* Push-to-talk transmit timer *)

\* the last handler was a setMicrophoneMuted(true), called by the application or
\* by a transmit timeout, that ran to its emission
MuteRan ==
    /\ lastOp \in {"setMicrophoneMuted(true)", "transmitTimerFired"}
    /\ obs.error = None

\* C35: in push-to-talk mode, after a setMicrophoneMuted(true), with or without a
\* local feed and whatever invocations overlap, no transmit timeout that an unmute
\* has scheduled is pending
C35_MuteCancelsTransmitTimer ==
    isPtt /\ MuteRan => PendingTransmitTimers = 0

\* C35 for a mute that finds the microphone of the local feed open
C35_MuteOfOpenMicrophoneCancels ==
    [][isPtt /\ MuteRan' /\ ~isMicrophoneMuted(Cur({})) /\ strayTransmitTimers = 0
           => PendingTransmitTimers' = 0]_vars

\* a setMicrophoneMuted(true) without a local feed has left the timeout of the
\* unmute before it pending
C35_PendingWithoutFeed ==
    /\ isPtt /\ MuteRan
    /\ ~localCallFeed
    /\ transmitTimer

\* two unmutes that overlapped have left a timeout without a handle
C35_StrayTimer == isPtt /\ strayTransmitTimers > 0

-----------------------------------------------------------------------------
(* Local streams *)

\* the last handler has acquired a stream of the purpose
Acquired(purpose) ==
    \E i \in DOMAIN obs.streams :
        obs.streams[i] = [op |-> "acquire", purpose |-> purpose]

\* the last handler has stopped a stream of the purpose, or all streams
Stopped(purpose) ==
    \E i \in DOMAIN obs.streams :
        \/ obs.streams[i] = [op |-> "stop", purpose |-> purpose]
        \/ obs.streams[i].op = "stopAll"

\* C36: leave and terminate release the streams that are held; a user-media stream
\* whose capture was pending at a leave is released when the capture completes; and
\* no handler leaves a stream it has acquired both unreleased and without a feed
\* that refers to it
C36_AcquiredStreamsReleased ==
    /\ lastOp \in {"leave", "terminate"} /\ obs.error = None => Stopped("m.usermedia")
    /\ obs.capture = "left" /\ Acquired("m.usermedia") => Stopped("m.usermedia")
    /\ Acquired("m.usermedia") => localCallFeed \/ Stopped("m.usermedia")
    /\ Acquired("m.screenshare") => localScreenshareFeed \/ Stopped("m.screenshare")

\* the part of C36 about leave, terminate and the screen
C36_LeaveReleasesHeldStreams ==
    /\ lastOp \in {"leave", "terminate"} /\ obs.error = None => Stopped("m.usermedia")
    /\ Acquired("m.screenshare") => localScreenshareFeed \/ Stopped("m.screenshare")

\* a capture that was pending at a leave has completed: its stream has no feed and
\* was not stopped
C36_LeakedAfterLeave ==
    /\ obs.capture = "left"
    /\ Acquired("m.usermedia")
    /\ ~localCallFeed
    /\ ~Stopped("m.usermedia")

-----------------------------------------------------------------------------
(* CallsChanged *)

\* the step changes the call graph
GraphChanges == calls' # calls

\* C37: every handler that changes the call graph emits CallsChanged before it
\* returns
C37_GraphChangeEmitsCallsChanged ==
    [][GraphChanges => obs'.callsChanged > 0]_vars

\* C37 for the handlers other than the placement-failure callback, leave and
\* terminate
C37_OtherHandlersEmit ==
    [][GraphChanges /\ lastOp' \notin {"placeCallFailed", "leave", "terminate"}
           => obs'.callsChanged > 0]_vars

\* the failure callback of a placement has deleted the slot of the failed call and
\* emitted no CallsChanged
C37_SilentFailure ==
    /\ lastOp = "placeCallFailed"
    /\ obs.callsChanged = 0
    /\ \E d \in obs.disposed : d[2] = "signalling_failed" /\ CallAt(SlotOf(d[1])) = 0

=============================================================================
